---- MODULE Spec2Model ----
(***************************************************************************)
(* Farsight2: ingestion of SEC 10-K/10-Q filings and question answering.   *)
(* The model covers the POST /process and POST /query handlers, the        *)
(* document store they write to, the document selector, and the pure       *)
(* helpers (document id derivation, embedding fallback, text segmenter).   *)
(*                                                                         *)
(* The specifications share the variables:                                 *)
(*   Spec         POST /process under failing collaborators, POST /query   *)
(*   SpecSelect   ingestion, selector construction, select_documents       *)
(*   SpecPure     generate_document_id, generate_embedding, analyze_query  *)
(*   SpecSegment  DocumentProcessor._extract_text_chunks                   *)
(*   SpecRespond  ResponseGenerator: _parse_response, generate_response    *)
(*   SpecRerank   ContentRetriever._rerank_chunks                          *)
(*   SpecDelete   ingestion and UnifiedRepository.delete_document          *)
(*   SpecFacts    EdgarClient.save_xbrl_fact_values                        *)
(*   SpecClient   EdgarClient: the ticker lookup cache                     *)
(*   SpecIndex    EdgarClient.find_filing_url, download_filing             *)
(*   SpecRace     two POST /process handlers on one store                  *)
(*   SpecChunks   embed_document, create_content_chunk, delete_document    *)
(***************************************************************************)
EXTENDS Integers, Sequences, FiniteSets, TLC

\* ---------------------------------------------------------------- bounds
MaxDocs == 2        \* Document rows the store may hold
MaxChunks == 1      \* text chunks a parsed filing may carry
MaxSections == 1    \* sections a filing offers to one segmenter strategy

\* Python's None for Optional[int] fields (quarter, fiscal_period).
None == 0 - 1

\* ------------------------------------------------------------ characters
Digit(d) ==
  CASE d = 0 -> "0" [] d = 1 -> "1" [] d = 2 -> "2" [] d = 3 -> "3"
    [] d = 4 -> "4" [] d = 5 -> "5" [] d = 6 -> "6" [] d = 7 -> "7"
    [] d = 8 -> "8" [] d = 9 -> "9"

RECURSIVE Digits(_)
\* str(n) of a non-negative int, as a sequence of characters
Digits(n) == IF n < 10 THEN <<Digit(n)>> ELSE Digits(n \div 10) \o <<Digit(n % 10)>>

\* the character sequences of the string literals the model uses
Chars(s) ==
  CASE s = "TEST" -> <<"T", "E", "S", "T">>
    [] s = "AAPL" -> <<"A", "A", "P", "L">>
    [] s = "10-K" -> <<"1", "0", "-", "K">>
    [] s = "10-Q" -> <<"1", "0", "-", "Q">>
    [] s = "10K"  -> <<"1", "0", "K">>
    [] s = "10Q"  -> <<"1", "0", "Q">>
    [] s = "8-K"  -> <<"8", "-", "K">>

\* str.replace('-', '')
RemoveHyphens(cs) == SelectSeq(cs, LAMBDA c : c # "-")

\* Python truthiness of an Optional[int]
Truthy(q) == q # None /\ q # 0

\* an id derivation that leaves the year out
generate_document_id_without_year(ticker, year, quarter, filing_type) ==
  ticker \o <<"_">>
    \o (IF Truthy(quarter) THEN Digits(quarter) ELSE <<"4">>)
    \o <<"_">> \o RemoveHyphens(filing_type)

\* f"{ticker}_{year}_{quarter if quarter else '4'}_{filing_type.replace('-', '')}"
generate_document_id(ticker, year, quarter, filing_type) ==
  ticker \o <<"_">> \o Digits(year) \o <<"_">>
    \o (IF Truthy(quarter) THEN Digits(quarter) ELSE <<"4">>)
    \o <<"_">> \o RemoveHyphens(filing_type)

\* f"{document_id}_text_{i}"
text_chunk_id(document_id, i) ==
  document_id \o <<"_", "t", "e", "x", "t", "_">> \o Digits(i)

\* ------------------------------------------------------- the input domains
Tickers == {"TEST", "AAPL"}
Years == {2023}
RequestQuarters == {None, 1}
RequestFilingTypes == {"10-K", "10-Q", "8-K"}
\* ProcessDocumentRequest bodies for one company: with and without a quarter,
\* of the two supported filing types and of another one
Requests ==
  [ticker : {"TEST"}, year : Years, quarter : RequestQuarters,
   filing_type : RequestFilingTypes]

\* company-facts payloads the registry may serve: the concepts it names and
\* the data points (fy, fp, form) it reports for them
XbrlPayloads ==
  { [facts |-> {}, values |-> <<>>],
    [facts |-> {"us-gaap:Revenue"},
     values |-> <<[fact_id |-> "us-gaap:Revenue", fy |-> 2023, fp |-> None,
                   form |-> "10-K", val |-> 100]>>] }
EmptyPayload == [facts |-> {}, values |-> <<>>]
FullPayload == CHOOSE p \in XbrlPayloads : p.facts # {}

\* the stage of POST /process at which a collaborator raises
FailStages ==
  {"none", "get_company_filings", "download_xbrl_facts", "download_filing",
   "process_filing", "save_to_database", "create_document", "create_chunk",
   "create_embedding", "create_fact"}
\* what the outside world does during one POST /process: the filing has
\* n_chunks sections, the registry serves the company-facts payload xbrl, and
\* the collaborator of stage fail raises (for a chunk stage, at chunk number at)
ProcessEnvs ==
  [fail : {"none"}, n_chunks : 0..MaxChunks, at : {1}, xbrl : XbrlPayloads]
  \cup [fail : FailStages \ {"none", "create_chunk", "create_embedding"},
        n_chunks : {MaxChunks}, at : {1}, xbrl : {FullPayload}]
  \cup [fail : {"create_chunk", "create_embedding"}, n_chunks : {MaxChunks},
        at : 1..MaxChunks, xbrl : {FullPayload}]
\* every collaborator answers; a filing without sections, no company facts
QuietEnv == [fail |-> "none", n_chunks |-> 0, at |-> 1, xbrl |-> EmptyPayload]

\* QueryAnalysis values (companies, years, quarters) the analyzer may give
QueryAnalyses ==
  [companies : {<<>>, <<"TEST">>}, years : {<<>>, <<2023>>}, quarters : {<<>>}]
SelectAnalyses ==
  [companies : {<<>>, <<"TEST">>, <<"AAPL">>, <<"TEST", "AAPL">>},
   years : {<<>>, <<2023>>, <<2022>>},
   quarters : {<<>>, <<1, 2>>, <<4>>}]
\* filings the selector specification ingests
SelectRequests ==
  [ticker : Tickers, year : Years, quarter : {1, 2, 4}, filing_type : {"10-K", "10-Q"}]
\* datetime.now().year
CurrentYears == {2023, 2024}
\* the stage of POST /query at which a collaborator raises
QueryFailStages == {"none", "retrieve_content", "generate_response"}

\* ---------------------------------------------------------------- state
VARIABLES
  companies,          \* Company rows (tickers)
  documents,          \* Document rows
  text_chunks,        \* TextChunkDB rows
  chunks,             \* DocumentChunk rows
  embeddings,         \* ChunkEmbedding rows
  facts,              \* Fact rows (each carries an embedding)
  fact_values,        \* FactValue rows
  succeeded,          \* history: requests answered with status "success"
  document_registry,  \* a constructed DocumentSelector's document_registry
  cik_cache,          \* the EdgarClient's cik_cache dictionary
  cache_file,         \* the file cik_cache.json of the download directory
  looked_up,          \* history: the client's successful ticker lookups
  in_flight,          \* the POST /process requests being handled concurrently
  out                 \* outcome of the last operation

storeVars == <<companies, documents, text_chunks, chunks, embeddings, facts,
               fact_values>>
clientVars == <<cik_cache, cache_file, looked_up>>
vars == <<companies, documents, text_chunks, chunks, embeddings, facts,
          fact_values, succeeded, document_registry, clientVars, in_flight,
          out>>

\* the store as one value
Store ==
  [companies |-> companies, documents |-> documents,
   text_chunks |-> text_chunks, chunks |-> chunks, embeddings |-> embeddings,
   facts |-> facts, fact_values |-> fact_values]

NotConstructed == [constructed |-> FALSE, keys |-> {}]
NoOp == [op |-> "none"]

\* ----------------------------------------------------------- repositories
\* DocumentRepository.get_document: the row with this id, if any
get_document_by_id(db, document_id) ==
  {d \in db.documents : d.document_id = document_id}

\* UnifiedRepository.get_document: rows of (ticker, year), narrowed by the
\* quarter when one is given, then the ones of the filing type
get_document(db, ticker, year, quarter, filing_type) ==
  {d \in db.documents :
     /\ d.ticker = ticker
     /\ d.year = year
     /\ (quarter # None => d.quarter = quarter)
     /\ d.filing_type = filing_type}

\* CompanyRepository.get_company
get_company(db, ticker) == ticker \in db.companies

\* DocumentRepository.get_documents_by_ticker
get_documents_by_company(db, ticker) == {d \in db.documents : d.ticker = ticker}

\* DocumentRepository.get_document_registry: the tickers that have documents
get_document_registry(db) == {d.ticker : d \in db.documents}

\* DocumentRepository.create_document: returns the existing row of that id,
\* else ensures the company and inserts the row
create_document(db, metadata) ==
  IF get_document_by_id(db, metadata.document_id) # {} THEN db
  ELSE [db EXCEPT !.companies = @ \cup {metadata.ticker},
                  !.documents = @ \cup {metadata}]

\* EdgarClient.download_filing: the DocumentMetadata it builds
DocumentMetadata(req) ==
  [document_id |-> generate_document_id(Chars(req.ticker), req.year,
                                        req.quarter, Chars(req.filing_type)),
   ticker |-> req.ticker, year |-> req.year, quarter |-> req.quarter,
   filing_type |-> req.filing_type]

RECURSIVE save_text_chunks(_, _, _, _)
\* the text-chunk loop of _save_to_database: TextChunkRepository.create_text_chunk
\* per chunk; a chunk id already present violates the primary key and ends the
\* loop (the caller swallows the exception)
save_text_chunks(db, document_id, i, n) ==
  IF i >= n THEN db
  ELSE LET id == text_chunk_id(document_id, i) IN
       IF get_document_by_id(db, document_id) = {} THEN db
       ELSE IF \E t \in db.text_chunks : t.chunk_id = id THEN db
       ELSE save_text_chunks(
              [db EXCEPT !.text_chunks =
                 @ \cup {[chunk_id |-> id, document_id |-> document_id]}],
              document_id, i + 1, n)

\* DocumentProcessor._save_to_database: document, then text chunks; every
\* exception is logged and swallowed
save_to_database(db, metadata, n, fails) ==
  IF fails THEN db
  ELSE save_text_chunks(create_document(db, metadata), metadata.document_id, 0, n)

\* a table that takes a second row of the same chunk id
chunk_id_free(db, chunk_id) == FALSE

\* the primary key of document_chunks: a row of this chunk_id is stored, and
\* a second insert raises
chunk_id_taken(db, chunk_id) == \E c \in db.chunks : c.chunk_id = chunk_id

\* UnifiedRepository.create_content_chunk: ChunkRepository.create_chunk
\* commits the chunk row (the document must exist, the chunk id be new), then,
\* when an embedding is given, EmbeddingRepository.create_embedding commits
\* its row; fail names the step that raises
create_content_chunk(db, document_id, chunk_id, has_embedding, fail) ==
  LET withChunk == [db EXCEPT !.chunks =
                      @ \cup {[chunk_id |-> chunk_id,
                               document_id |-> document_id,
                               content_type |-> "text"]}]
      withEmbedding == [withChunk EXCEPT !.embeddings =
                          @ \cup {[chunk_id |-> chunk_id]}]
  IN
  IF get_document_by_id(db, document_id) = {} THEN [db |-> db, ok |-> FALSE]
  ELSE IF chunk_id_taken(db, chunk_id) THEN [db |-> db, ok |-> FALSE]
  ELSE IF fail = "create_chunk" THEN [db |-> db, ok |-> FALSE]
  ELSE IF ~has_embedding THEN [db |-> withChunk, ok |-> TRUE]
  ELSE IF fail = "create_embedding" THEN [db |-> withChunk, ok |-> FALSE]
  ELSE [db |-> withEmbedding, ok |-> TRUE]

RECURSIVE embed_chunks(_, _, _, _, _, _)
\* the loop of UnifiedEmbeddingService.embed_document: generate_embedding, then
\* UnifiedRepository.create_content_chunk with the embedding; the first call
\* that raises ends the loop
embed_chunks(db, document_id, i, n, fail, at) ==
  IF i >= n THEN [db |-> db, ok |-> TRUE]
  ELSE LET r == create_content_chunk(db, document_id,
                                     text_chunk_id(document_id, i), TRUE,
                                     IF at = i + 1 THEN fail ELSE "none")
       IN IF ~r.ok THEN r
          ELSE embed_chunks(r.db, document_id, i + 1, n, fail, at)

\* UnifiedEmbeddingService.embed_document
embed_document(db, document_id, n, fail, at) ==
  embed_chunks(db, document_id, 0, n, fail, at)

\* a lookup that finds no stored value
no_fact_value_by_details(db, fact_id, ticker, year, quarter, filing_type) == {}

\* UnifiedRepository.get_fact_value_by_details: the stored value of that
\* (fact, ticker, fiscal year, fiscal period, filing type), if any
get_fact_value_by_details(db, fact_id, ticker, year, quarter, filing_type) ==
  {v \in db.fact_values :
     /\ v.fact_id = fact_id
     /\ v.ticker = ticker
     /\ v.fiscal_year = year
     /\ v.fiscal_period = quarter
     /\ v.filing_type = filing_type}

\* the FactValue download_xbrl_facts builds from one reported data point
FactValueOf(ticker, value) ==
  [fact_id |-> value.fact_id, ticker |-> ticker,
   document_id |-> generate_document_id(Chars(ticker), value.fy, value.fp,
                                        Chars(value.form)),
   filing_type |-> value.form, fiscal_year |-> value.fy,
   fiscal_period |-> value.fp, value |-> value.val]

RECURSIVE save_xbrl_fact_values(_, _, _)
\* EdgarClient.save_xbrl_fact_values: insert unless a value of the same
\* details exists
save_xbrl_fact_values(db, ticker, values) ==
  IF values = <<>> THEN db
  ELSE LET fv == FactValueOf(ticker, Head(values))
           db1 == IF get_fact_value_by_details(db, fv.fact_id, fv.ticker,
                        fv.fiscal_year, fv.fiscal_period, fv.filing_type) = {}
                  THEN [db EXCEPT !.fact_values = @ \cup {fv}]
                  ELSE db
       IN save_xbrl_fact_values(db1, ticker, Tail(values))

\* EdgarClient.save_xbrl_facts: a fact not yet stored is embedded and created;
\* an exception of either step is logged and the loop goes on
save_xbrl_facts(db, payloadFacts, create_fails) ==
  IF create_fails THEN db ELSE [db EXCEPT !.facts = @ \cup payloadFacts]

\* EdgarClient.download_xbrl_facts: fetch the company facts, save the facts
\* and their values
download_xbrl_facts(db, ticker, payload, create_fails) ==
  save_xbrl_fact_values(save_xbrl_facts(db, payload.facts, create_fails),
                        ticker, payload.values)

\* UnifiedEmbeddingService.embed_facts: each fact is embedded and created
\* unless stored; per-fact failures are swallowed (UnifiedRepository.create_fact
\* returns None when the insert raises)
embed_facts(db, fs, create_fails) ==
  IF create_fails THEN db ELSE [db EXCEPT !.facts = @ \cup fs]

\* the subsets of S holding k elements, or all of S when it has fewer
KSubsets(S, k) ==
  {T \in SUBSET S :
     Cardinality(T) = IF Cardinality(S) < k THEN Cardinality(S) ELSE k}

\* ----------------------------------------------------- document selector
\* relevance scores, in tenths: 1.0 for a 10-K, 0.9 for a 10-Q of a quarter
RelevanceAnnual == 10
RelevanceQuarterly == 9
\* 0.8, the score of the branch for an analysis without quarters
RelevanceAllQuarters == 8

RECURSIVE rows(_)
\* the rows of a query in the order the database returns them
rows(S) ==
  IF S = {} THEN <<>>
  ELSE LET x == CHOOSE y \in S : TRUE IN <<x>> \o rows(S \ {x})

\* DocumentReference(document_id, relevance_score) per document
references(docs, score) ==
  [i \in 1..Len(docs) |->
     [document_id |-> docs[i].document_id, relevance_score |-> score]]

\* the 10-K documents of a company whatever their year
annual_docs_of_any_year(company_documents, year) ==
  SelectSeq(company_documents, LAMBDA d : d.filing_type = "10-K")

\* the company's 10-Q documents of the year whatever their quarter
quarterly_docs_of_any_quarter(company_documents, year, quarter) ==
  SelectSeq(company_documents,
            LAMBDA d : d.year = year /\ d.filing_type = "10-Q")

\* annual_docs: the company's 10-K documents of the year
annual_docs(company_documents, year) ==
  SelectSeq(company_documents, LAMBDA d : d.year = year /\ d.filing_type = "10-K")

\* quarterly_docs: the company's 10-Q documents of the year and quarter
quarterly_docs(company_documents, year, quarter) ==
  SelectSeq(company_documents,
            LAMBDA d : d.year = year /\ d.filing_type = "10-Q" /\ d.quarter = quarter)

RECURSIVE quarter_references(_, _, _)
\* the loop over quarters: quarter 4 is skipped, each other quarter's 10-Qs
\* are appended at 0.9
quarter_references(company_documents, year, quarters) ==
  IF quarters = <<>> THEN <<>>
  ELSE (IF Head(quarters) = 4 THEN <<>>
        ELSE references(quarterly_docs(company_documents, year, Head(quarters)),
                        RelevanceQuarterly))
       \o quarter_references(company_documents, year, Tail(quarters))

RECURSIVE year_references(_, _, _)
\* the loop over years: the year's 10-Ks at 1.0, then its 10-Qs
year_references(company_documents, years, quarters) ==
  IF years = <<>> THEN <<>>
  ELSE references(annual_docs(company_documents, Head(years)), RelevanceAnnual)
       \o quarter_references(company_documents, Head(years), quarters)
       \o year_references(company_documents, Tail(years), quarters)

RECURSIVE company_references(_, _, _, _, _)
\* the loop over companies: a company that is not a key of the selector's
\* document_registry is skipped, the documents of the others are read from
\* the store
company_references(db, registry, cs, years, quarters) ==
  IF cs = <<>> THEN <<>>
  ELSE (IF Head(cs) \notin registry THEN <<>>
        ELSE year_references(rows(get_documents_by_company(db, Head(cs))),
                             years, quarters))
       \o company_references(db, registry, Tail(cs), years, quarters)

RECURSIVE insert_by_relevance(_, _)
\* r placed behind every reference whose score is at least r's
insert_by_relevance(sorted, r) ==
  IF sorted = <<>> THEN <<r>>
  ELSE IF Head(sorted).relevance_score >= r.relevance_score
       THEN <<Head(sorted)>> \o insert_by_relevance(Tail(sorted), r)
       ELSE <<r>> \o sorted

\* the references left in the order they were collected
left_unsorted(document_references) == document_references

RECURSIVE sort_by_relevance(_)
\* document_references.sort(key=relevance_score, reverse=True): stable
sort_by_relevance(document_references) ==
  IF document_references = <<>> THEN <<>>
  ELSE insert_by_relevance(
         sort_by_relevance(SubSeq(document_references, 1,
                                  Len(document_references) - 1)),
         document_references[Len(document_references)])

\* DocumentSelector.select_documents. The years default to the current year;
\* the quarters default to [1, 2, 3, 4] inside the loop, so the branch that
\* scores 0.8 is never taken.
select_documents(db, registry, analysis, current_year) ==
  LET years == IF analysis.years = <<>> THEN <<current_year>> ELSE analysis.years
      quarters == IF analysis.quarters = <<>> THEN <<1, 2, 3, 4>>
                  ELSE analysis.quarters
  IN IF analysis.companies = <<>> THEN <<>>
     ELSE sort_by_relevance(
            company_references(db, registry, analysis.companies, years, quarters))

\* ------------------------------------------------------------ POST /process
NoId == <<>>
Response(db, status, detail, document_id, calls) ==
  [db |-> db, status |-> status, detail |-> detail,
   document_id |-> document_id, calls |-> calls]

\* a validation that lets every filing type through
accepts_any_filing_type(filing_type) == TRUE

\* request.filing_type in ["10-K", "10-Q"]
valid_filing_type(filing_type) == filing_type \in {"10-K", "10-Q"}

\* request.quarter in [1, 2, 3, 4]
valid_quarter(quarter) == quarter \in {1, 2, 3, 4}

\* POST /process (api/app.py process_document): the store it leaves, the
\* response, and the collaborators it called
process_document(db, req, env) ==
  LET meta == DocumentMetadata(req)
      firstSight == ~get_company(db, req.ticker)
      existing == get_document(db, req.ticker, req.year, req.quarter,
                               req.filing_type)
      c0 == {"get_company_filings"}
      c1 == c0 \cup (IF firstSight THEN {"download_xbrl_facts"} ELSE {})
      c2 == c1 \cup {"download_filing"}
      c3 == c2 \cup {"process_filing"}
      c4 == c3 \cup {"create_document"}
      c5 == c4 \cup {"embed_document"}
      db1 == IF firstSight
             THEN download_xbrl_facts(db, req.ticker, env.xbrl,
                                      env.fail = "create_fact")
             ELSE db
      newFacts == IF firstSight THEN env.xbrl.facts ELSE {}
      db2 == save_to_database(db1, meta, env.n_chunks,
                              env.fail = "save_to_database")
      db3 == create_document(db2, meta)
      emb == embed_document(db3, meta.document_id, env.n_chunks, env.fail,
                            env.at)
  IN
  IF ~valid_filing_type(req.filing_type)
  THEN Response(db, 400, "Invalid filing type. Must be 10-K or 10-Q", NoId, {})
  ELSE IF ~valid_quarter(req.quarter)
  THEN Response(db, 400, "Quarter must be 1, 2, 3, or 4", NoId, {})
  ELSE IF env.fail = "get_company_filings"
  THEN Response(db, 500, "Error getting company filings", NoId, c0)
  ELSE IF existing # {}
  THEN Response(db, 200, "success",
                (CHOOSE d \in existing : TRUE).document_id, c0)
  ELSE IF firstSight /\ env.fail = "download_xbrl_facts"
  THEN Response(db, 500, "Error downloading XBRL facts", NoId, c1)
  ELSE IF env.fail = "download_filing"
  THEN Response(db1, 500, "Error downloading filing", NoId, c2)
  ELSE IF env.fail = "process_filing"
  THEN Response(db1, 500, "Error processing filing", NoId, c3)
  ELSE IF env.fail = "create_document"
  THEN Response(db2, 500, "Error saving document to database", NoId, c4)
  ELSE IF ~emb.ok
  THEN Response(emb.db, 500, "Error generating embeddings", NoId, c5)
  ELSE Response(embed_facts(emb.db, newFacts, env.fail = "create_fact"), 200,
                "success",
                meta.document_id,
                c5 \cup (IF newFacts # {} THEN {"embed_facts"} ELSE {}))

\* -------------------------------------------------------------- POST /query
TopK == 3       \* ContentRetriever.retrieve_content(top_k=3)
FactTopK == 5   \* FactRepository.search_facts_by_embedding(top_k=5)

\* UnifiedEmbeddingService.search_documents and the store's nearest-neighbour
\* query: the embedded chunks, of the first selected document when documents
\* were selected and of any document otherwise; which top_k of them rank
\* first is the similarity's choice
retrieve_content(db, document_references) ==
  LET embedded == {c \in db.chunks :
                     \E e \in db.embeddings : e.chunk_id = c.chunk_id}
      candidates ==
        IF document_references = <<>> THEN embedded
        ELSE {c \in embedded :
                c.document_id = document_references[1].document_id}
  IN KSubsets({c.chunk_id : c \in candidates}, TopK)

\* FactRepository.search_facts_by_embedding: the top_k nearest facts, each
\* paired with its similarity
search_facts_by_embedding(db) == KSubsets(db.facts, FactTopK)

\* the sweep over companies x years x quarters x filing types x relevant
\* facts: its body reads fact.fact_id from a (fact, similarity) pair, which
\* raises as soon as the body runs
sweep_raises(analysis, relevant_facts) ==
  analysis.companies # <<>> /\ analysis.years # <<>> /\ relevant_facts # {}

QueryResponse(status, detail, analysis, refs, relevant_chunks, relevant_facts, calls) ==
  [op |-> "query", status |-> status, detail |-> detail,
   analysis |-> analysis,
   documents_used |-> refs, relevant_chunks |-> relevant_chunks,
   relevant_facts |-> relevant_facts, fact_values |-> {}, calls |-> calls]

\* POST /query (api/app.py query) after the analysis: the responses it may
\* give, one per ranking the similarity search may return
query(db, registry, analysis, current_year, fail) ==
  LET refs == select_documents(db, registry, analysis, current_year)
      s0 == {"select_documents"}
      s1 == s0 \cup {"retrieve_content"}
      s2 == s1 \cup {"search_facts_by_embedding"}
      s3 == s2 \cup {"generate_response"}
  IN
  IF fail = "retrieve_content"
  THEN {QueryResponse(500, "Error retrieving content", analysis, refs, {}, {}, s1)}
  ELSE
  { IF sweep_raises(analysis, rf)
    THEN QueryResponse(500, "Error retrieving content", analysis, refs, rc, rf, s2)
    ELSE IF rc = {} /\ rf = {}
    THEN QueryResponse(404, "No relevant content found for the query",
                       analysis, refs, rc, rf, s2)
    ELSE IF fail = "generate_response"
    THEN QueryResponse(500, "Error generating response", analysis, refs, rc, rf, s3)
    ELSE QueryResponse(200, "ok", analysis, refs, rc, rf, s3)
    : rc \in retrieve_content(db, refs), rf \in search_facts_by_embedding(db) }

\* ------------------------------------------------------ embedding fallback
EmbeddingModels == {"text-embedding-3-large", "text-embedding-3-small"}
MaxTokens == 7000
CharsPerToken == 4
LargeDimension == 3072   \* the length the fallback multiplies out
SmallDimension == 1536   \* the length the test suite's endpoint double returns
TextLengths == {0, 10, 28000, 28001, 60000}

\* "3-small" in self.embedding_model
has_3_small(model) == model = "text-embedding-3-small"

\* the embedding endpoint: the vector length it answers with per model
endpoint_dimension(model) ==
  IF has_3_small(model) THEN SmallDimension ELSE LargeDimension

\* UnifiedEmbeddingService.generate_embedding: the text is cut to
\* max_tokens * 4 characters and sent to the endpoint; when the call raises,
\* [0.0] * (3072 if "3-small" in self.embedding_model else 3072) is returned
generate_embedding(model, text_length, endpoint_raises) ==
  [sent |-> IF text_length > MaxTokens * CharsPerToken
            THEN MaxTokens * CharsPerToken ELSE text_length,
   raised |-> FALSE,
   vector |-> IF endpoint_raises
              THEN [length |-> IF has_3_small(model) THEN LargeDimension
                               ELSE LargeDimension,
                    all_zero |-> TRUE]
              ELSE [length |-> endpoint_dimension(model), all_zero |-> FALSE]]

\* ---------------------------------------------------------- text segmenter
\* A filing as the segmenter sees it: the stripped text length of each ITEM
\* section under a heading (method 1), of each div/section element matching a
\* selector (method 2), of each ITEM match in the plain text (method 3), and
\* the length of the plain text (fixed windows).
SectionLengths == {0, 49, 50}
SectionLists == UNION {[1..n -> SectionLengths] : n \in 0..MaxSections}
FullTextLengths == {0, 49, 3049}
ChunkSize == 3000
Filings ==
  [items : SectionLists, divs : SectionLists, matches : SectionLists,
   full_text : FullTextLengths]

\* for i, section in enumerate(sections): a TextChunk f"{id}_text_{i}" per
\* section whose stripped text is not empty
section_chunks(sections, method) ==
  LET kept == {i \in 1..Len(sections) : sections[i] > 0}
      nth[k \in 0..Cardinality(kept)] ==
        IF k = 0 THEN 0
        ELSE CHOOSE i \in kept : i > nth[k - 1]
                                 /\ \A j \in kept : j > nth[k - 1] => i <= j
  IN [k \in 1..Cardinality(kept) |->
        [index |-> nth[k] - 1, length |-> sections[nth[k]], method |-> method]]

\* full_text[i:i+chunk_size] for i in range(0, len(full_text), chunk_size)
window_lengths(full_text) ==
  [k \in 1..((full_text + ChunkSize - 1) \div ChunkSize) |->
     IF k * ChunkSize <= full_text THEN ChunkSize
     ELSE full_text - (k - 1) * ChunkSize]

\* DocumentProcessor._extract_text_chunks: method 1, else method 2, else
\* method 3 (ITEM matches in the text when there are any, fixed windows
\* otherwise)
extract_text_chunks(filing) ==
  LET m1 == section_chunks(filing.items, "item headings")
      m2 == section_chunks(filing.divs, "div sections")
      m3 == IF filing.matches # <<>>
            THEN section_chunks(filing.matches, "item matches")
            ELSE section_chunks(window_lengths(filing.full_text), "windows")
  IN IF m1 # <<>> THEN m1 ELSE IF m2 # <<>> THEN m2 ELSE m3

\* the inputs of generate_document_id
IdInputs ==
  [ticker : {"TEST", "AAPL"}, year : {2023, 2024}, quarter : {None, 0, 1, 4},
   filing_type : {"10-K", "10K", "10-Q"}]
\* the fields in which two inputs differ
DifferingFields(a, b) ==
  {f \in {"ticker", "year", "quarter", "filing_type"} : a[f] # b[f]}
document_id_of(a) ==
  generate_document_id(Chars(a.ticker), a.year, a.quarter, Chars(a.filing_type))

\* ---------------------------------------------------------- query analysis
\* What the chat endpoint answers to the extraction prompt: the call raises,
\* the content is not JSON, or it is a JSON object (a dictionary: the keys it
\* holds and their values)
ExtractedObjects ==
  [companies : {<<>>, <<"TEST">>}, years : {<<>>, <<2023>>},
   quarters : {<<>>, <<1>>}, topics : {<<>>, <<"revenue">>}]
AnalysisKeys == {"companies", "years", "quarters", "topics"}
LlmExtractions ==
  {[kind |-> "raises"], [kind |-> "malformed"]}
  \cup {[kind |-> "object", keys |-> ks, object |-> o] :
          ks \in {AnalysisKeys, AnalysisKeys \ {"quarters"}},
          o \in ExtractedObjects}

\* the dictionary the except branch returns
EmptyAnalysis ==
  [keys |-> AnalysisKeys,
   object |-> [companies |-> <<>>, years |-> <<>>, quarters |-> <<>>,
               topics |-> <<>>]]

\* QueryAnalyzer._llm_analyze_query: json.loads of the answer; any exception
\* gives the dictionary of empty lists
llm_analyze_query(extraction) ==
  IF extraction.kind = "object"
  THEN [keys |-> extraction.keys, object |-> extraction.object]
  ELSE EmptyAnalysis

\* dict.get(key, default)
dict_get(d, key, default) == IF key \in d.keys THEN d.object[key] ELSE default

\* UnifiedEmbeddingService.embed_query_analysis: a chat call that enhances
\* the query, outside any try, then generate_embedding of both texts
embed_query_analysis(model, enhancement_raises, endpoint_raises) ==
  IF enhancement_raises
  THEN [raised |-> TRUE]
  ELSE generate_embedding(model, 10, endpoint_raises)

\* QueryAnalyzer.analyze_query
analyze_query(extraction, model, enhancement_raises, endpoint_raises) ==
  LET llm_analysis == llm_analyze_query(extraction)
      embedding == embed_query_analysis(model, enhancement_raises,
                                        endpoint_raises)
  IN IF embedding.raised
     THEN [raised |-> TRUE]
     ELSE [raised |-> FALSE,
           companies |-> dict_get(llm_analysis, "companies", <<>>),
           years |-> dict_get(llm_analysis, "years", <<>>),
           quarters |-> dict_get(llm_analysis, "quarters", <<1, 2, 3, 4>>),
           topics |-> dict_get(llm_analysis, "topics", <<>>),
           embedding |-> embedding.vector]

\* ------------------------------------------------------ response generator
\* The text the chat endpoint answers with, as a sequence of pieces: the
\* literals "ANSWER:" and "SOURCES:", a source number "[n]", white space, and
\* words (sequences of characters without white space).
AnswerLabel == [kind |-> "ANSWER:", chars |-> <<>>]
SourcesDelimiter == [kind |-> "SOURCES:", chars |-> <<>>]
SourceNumber == [kind |-> "[n]", chars |-> <<>>]
Space == [kind |-> " ", chars |-> <<>>]
Word(cs) == [kind |-> "word", chars |-> cs]

\* the ids the contexts and the source descriptions name
DocumentIdTest == generate_document_id(Chars("TEST"), 2023, 1, Chars("10-K"))
FactIdRevenue == <<"R", "e", "v", "e", "n", "u", "e">>
FactIdRevenues == FactIdRevenue \o <<"s">>
PlainWord == <<"s", "e", "e">>

\* the sequences over a set of pieces up to a length
SeqsUpTo(S, n) == UNION {[1..k -> S] : k \in 0..n}

MaxAnswerPieces == 2
MaxSourcePieces == 3
\* answers of the endpoint: short texts over the literals, and well-formed
\* answers whose sources part varies
LlmContents ==
  SeqsUpTo({AnswerLabel, SourcesDelimiter, Space, Word(PlainWord)},
           MaxAnswerPieces)
  \cup {<<AnswerLabel, Word(PlainWord), Space, SourcesDelimiter>> \o s :
          s \in SeqsUpTo({SourceNumber, Word(DocumentIdTest),
                          Word(FactIdRevenues)},
                         MaxSourcePieces)}
LlmAnswers == {[raises |-> TRUE, content |-> <<>>]}
              \cup {[raises |-> FALSE, content |-> c] : c \in LlmContents}

\* relevant_chunks: none, one chunk, two chunks of the same document
RelevantChunkOf(location) ==
  [document_id |-> DocumentIdTest, content |-> "text of the chunk",
   content_type |-> "text", location |-> location]
RelevantChunkLists ==
  {<<>>, <<RelevantChunkOf("Item 1")>>,
   <<RelevantChunkOf("Item 1"), RelevantChunkOf("Item 7")>>}

\* relevant_fact_values: none, values of two facts, two values of one fact
FactValueFor(fact_id, fiscal_year) ==
  [fact_id |-> fact_id, value |-> 100, fiscal_year |-> {fiscal_year},
   document_id |-> {DocumentIdTest}, ticker |-> {Chars("TEST")}]
RelevantFactValueLists ==
  {<<>>,
   <<FactValueFor(FactIdRevenue, 2023), FactValueFor(FactIdRevenues, 2023)>>,
   <<FactValueFor(FactIdRevenue, 2023), FactValueFor(FactIdRevenue, 2022)>>}

\* str.split(sep) that cuts at the first separator only
split_at_first(s, sep) ==
  LET at == {i \in 1..Len(s) : s[i] = sep} IN
  IF at = {} THEN <<s>>
  ELSE LET i == CHOOSE i \in at : \A j \in at : i <= j
       IN <<SubSeq(s, 1, i - 1), SubSeq(s, i + 1, Len(s))>>

\* str.split(sep): the parts between the occurrences of sep
split(s, sep) ==
  LET at == {i \in 1..Len(s) : s[i] = sep}
      n == Cardinality(at)
      nth[k \in 0..n + 1] ==
        IF k = 0 THEN 0
        ELSE IF k = n + 1 THEN Len(s) + 1
        ELSE CHOOSE i \in at : i > nth[k - 1]
                                /\ \A j \in at : j > nth[k - 1] => i <= j
  IN [k \in 1..n + 1 |-> SubSeq(s, nth[k - 1] + 1, nth[k] - 1)]

\* str.replace(old, "")
remove(s, old) == SelectSeq(s, LAMBDA p : p # old)

\* str.strip()
strip(s) ==
  LET inked == {i \in 1..Len(s) : s[i] # Space} IN
  IF inked = {} THEN <<>>
  ELSE SubSeq(s, CHOOSE i \in inked : \A j \in inked : i <= j,
                 CHOOSE i \in inked : \A j \in inked : i >= j)

\* ResponseGenerator._parse_response
parse_response(content) ==
  LET parts == split(content, SourcesDelimiter) IN
  IF Len(parts) # 2
  THEN [raised |-> TRUE]
  ELSE [raised |-> FALSE,
        answer |-> strip(remove(parts[1], AnswerLabel)),
        sources |-> strip(parts[2])]

\* generate_response, chunk_context: metadata = {} and metadata.get(key) is
\* None for each of filing_type, ticker, year, quarter. An Optional value is
\* the empty set (None) or a set of one value.
chunk_context_of(relevant_chunks) ==
  [k \in 1..Len(relevant_chunks) |->
     [content |-> relevant_chunks[k].content,
      content_type |-> relevant_chunks[k].content_type,
      location |-> relevant_chunks[k].location,
      document_id |-> relevant_chunks[k].document_id,
      filing_type |-> {}, company |-> {}, year |-> {}, quarter |-> {}]]

\* generate_response, fact_context: one entry, of one value, per fact value
fact_context_of(relevant_fact_values) ==
  [k \in 1..Len(relevant_fact_values) |->
     [fact_id |-> relevant_fact_values[k].fact_id,
      values |-> <<[value |-> relevant_fact_values[k].value,
                    fiscal_year |-> relevant_fact_values[k].fiscal_year,
                    document_id |-> relevant_fact_values[k].document_id,
                    ticker |-> relevant_fact_values[k].ticker]>>]]

\* re.findall(r"\[\d+\](.*?)(?=\[\d+\]|\Z)", sources): the stripped text
\* after each source number up to the next one or the end
source_entries(sources) ==
  LET parts == split(sources, SourceNumber)
  IN [k \in 1..(Len(parts) - 1) |-> strip(parts[k + 1])]

\* id in entry: the id is a substring of the entry (ids hold no white space,
\* so an occurrence lies within one word)
occurs_in(id, entry) ==
  \E i \in 1..Len(entry) :
    \E k \in 1..(Len(entry[i].chars) - Len(id) + 1) :
      SubSeq(entry[i].chars, k, k + Len(id) - 1) = id

\* Citation(...) for a chunk context
chunk_citation(chunk) ==
  [document_id |-> {chunk.document_id}, filing_type |-> chunk.filing_type,
   company |-> chunk.company, year |-> chunk.year, quarter |-> chunk.quarter,
   location |-> chunk.location, content |-> chunk.content,
   content_type |-> chunk.content_type, fact_id |-> {}]

\* a Citation that falls back to "Unknown" for the fact id
fact_citation_of_unknown_fact(fact, value) ==
  [document_id |-> value.document_id, filing_type |-> {"Fact Value"},
   company |-> value.ticker, year |-> value.fiscal_year, quarter |-> {},
   location |-> "", content |-> value.value, content_type |-> "fact_value",
   fact_id |-> {<<"U", "n", "k", "n", "o", "w", "n">>}]

\* Citation(...) for a value of a fact context
fact_citation(fact, value) ==
  [document_id |-> value.document_id, filing_type |-> {"Fact Value"},
   company |-> value.ticker, year |-> value.fiscal_year, quarter |-> {},
   location |-> "", content |-> value.value, content_type |-> "fact_value",
   fact_id |-> {fact.fact_id}]

\* the validation of the Citation model: document_id, filing_type and company
\* are required strings and year a required int
valid_citation(c) ==
  c.document_id # {} /\ c.filing_type # {} /\ c.company # {} /\ c.year # {}

\* _create_citations, the body of the loop for one entry: a Citation for
\* every chunk context whose document id occurs in the entry, then one for
\* every fact context whose fact id occurs in it
entry_citations(entry, chunk_context, fact_context) ==
  LET cs == SelectSeq(chunk_context,
                      LAMBDA c : occurs_in(c.document_id, entry))
      fs == SelectSeq(fact_context, LAMBDA f : occurs_in(f.fact_id, entry))
  IN [k \in 1..Len(cs) |-> chunk_citation(cs[k])]
     \o [k \in 1..Len(fs) |-> fact_citation(fs[k], fs[k].values[1])]

RECURSIVE concat(_)
\* the lists of a list, appended in order
concat(lists) ==
  IF lists = <<>> THEN <<>> ELSE Head(lists) \o concat(Tail(lists))

\* ResponseGenerator._create_citations: raises when a Citation does not
\* validate
create_citations(sources, chunk_context, fact_context) ==
  LET entries == source_entries(sources)
      citations == concat([k \in 1..Len(entries) |->
                             entry_citations(entries[k], chunk_context,
                                             fact_context)])
  IN IF \E k \in 1..Len(citations) : ~valid_citation(citations[k])
     THEN [raised |-> TRUE]
     ELSE [raised |-> FALSE, citations |-> citations]

\* ResponseGenerator.generate_response: the chat call, _parse_response and
\* _create_citations; every exception is logged and raised again
generate_response(relevant_chunks, relevant_fact_values, llm) ==
  LET chunk_context == chunk_context_of(relevant_chunks)
      fact_context == fact_context_of(relevant_fact_values)
      parsed == parse_response(llm.content)
      created == create_citations(parsed.sources, chunk_context, fact_context)
  IN IF llm.raises \/ parsed.raised THEN [raised |-> TRUE]
     ELSE IF created.raised THEN [raised |-> TRUE]
     ELSE [raised |-> FALSE, response |-> strip(parsed.answer),
           citations |-> created.citations]

\* the contexts a call of generate_response is given
ResponseContexts ==
  {[chunks |-> c, fact_values |-> <<>>] : c \in RelevantChunkLists}
  \cup {[chunks |-> <<>>, fact_values |-> f] : f \in RelevantFactValueLists}

\* ----------------------------------------------------------- LLM reranking
MaxRerank == 2
\* the chunks handed to _rerank_chunks: chunk 1..n, each with the score the
\* similarity search gave it
SearchScore == [num |-> 1, den |-> 2]
RerankInputs ==
  {[k \in 1..n |-> [chunk |-> k, relevance_score |-> SearchScore]] :
     n \in 0..MaxRerank}
\* what the chat endpoint answers to the reranking prompt: the call raises,
\* the content is not JSON, it is JSON of another shape, or it holds a
\* ranking: a list of integers
Rankings == UNION {[1..k -> 0..(MaxRerank + 1)] : k \in 0..(MaxRerank + 1)}
LlmRankings ==
  {[kind |-> "raises", ranking |-> <<>>],
   [kind |-> "malformed", ranking |-> <<>>],
   [kind |-> "invalid format", ranking |-> <<>>]}
  \cup {[kind |-> "ranking", ranking |-> r] : r \in Rankings}

\* list.index(x): the first place of x, counted from 0
index_of(list, x) ==
  (CHOOSE k \in 1..Len(list) :
     list[k] = x /\ \A j \in 1..(k - 1) : list[j] # x) - 1

\* [i - 1 for i in indices if 1 <= i <= len(chunks)]
zero_based_indices(ranking, n) ==
  LET kept == SelectSeq(ranking, LAMBDA i : 1 <= i /\ i <= n)
  IN [k \in 1..Len(kept) |-> kept[k] - 1]

RECURSIVE append_unranked(_, _, _, _)
\* for i, chunk in enumerate(chunks): a chunk whose index was not ranked is
\* appended at score 0.0 while the result is shorter than the input
append_unranked(reranked, top_chunks, ranked_indices, i) ==
  IF i >= Len(top_chunks) THEN reranked
  ELSE IF i \notin ranked_indices /\ Len(reranked) < Len(top_chunks)
       THEN append_unranked(
              Append(reranked, [chunk |-> top_chunks[i + 1].chunk,
                                relevance_score |-> [num |-> 0, den |-> 1]]),
              top_chunks, ranked_indices, i + 1)
       ELSE append_unranked(reranked, top_chunks, ranked_indices, i + 1)

\* ContentRetriever._rerank_chunks, the score 1.0 - index / len(indices)
\* kept as the fraction (len(indices) - index) / len(indices)
rerank_chunks(top_chunks, llm) ==
  IF llm.kind # "ranking" THEN top_chunks
  ELSE
    LET indices == zero_based_indices(llm.ranking, Len(top_chunks))
        reranked_chunks ==
          [k \in 1..Len(indices) |->
             [chunk |-> top_chunks[indices[k] + 1].chunk,
              relevance_score |->
                [num |-> Len(indices) - index_of(indices, indices[k]),
                 den |-> Len(indices)]]]
        ranked_indices == {indices[k] : k \in 1..Len(indices)}
    IN append_unranked(reranked_chunks, top_chunks, ranked_indices, 0)

\* -------------------------------------------------------- document removal
\* UnifiedRepository.delete_document: the document's chunks with their
\* embeddings, its text chunks and the document row are deleted in one
\* session and committed; fact values are not touched. When a step raises the
\* session is rolled back and False is returned. (Tables are not part of the
\* modelled store.)
delete_document(db, document_id, fails) ==
  IF get_document_by_id(db, document_id) = {}
  THEN [db |-> db, result |-> FALSE]
  ELSE IF fails THEN [db |-> db, result |-> FALSE]
  ELSE LET doc_chunks == {c \in db.chunks : c.document_id = document_id}
       IN [db |-> [db EXCEPT
                     !.embeddings =
                       {e \in @ : \A c \in doc_chunks : c.chunk_id # e.chunk_id},
                     !.chunks = @ \ doc_chunks,
                     !.text_chunks =
                       {t \in @ : t.document_id # document_id},
                     !.documents = {d \in @ : d.document_id # document_id}],
           result |-> TRUE]

\* the requests and surroundings of the ingestions that precede a removal
DeleteRequests ==
  [ticker : {"TEST"}, year : Years, quarter : {1, 4}, filing_type : {"10-K"}]
DeleteEnvs ==
  [fail : {"none"}, n_chunks : 0..MaxChunks, at : {1}, xbrl : XbrlPayloads]
\* the ids delete_document is called with
DeleteIds == {DocumentMetadata(req).document_id : req \in DeleteRequests}

\* ------------------------------------------------------ saving fact values
MaxBatch == 2
\* the reported data points a batch is made of: two periods of one concept,
\* each with two amounts
DataPoints ==
  [fact_id : {"us-gaap:Revenue"}, fy : {2023}, fp : {None, 1},
   form : {"10-K"}, val : {100, 200}]
\* the batches save_xbrl_fact_values is called with
Batches == UNION {[1..n -> DataPoints] : n \in 0..MaxBatch}

\* ------------------------------------------------------ ticker lookup cache
\* self.cik_cache = {}
EmptyCache == <<>>

\* the tickers _format_cik is called with, in several letter cases
LookupTickers == {"TEST", "test", "Test", "AAPL", "aapl"}

\* a key derivation that keeps the letter case
as_given(ticker) == ticker

\* str.upper()
upper(ticker) ==
  CASE ticker \in {"TEST", "test", "Test"} -> "TEST"
    [] ticker \in {"AAPL", "aapl"} -> "AAPL"

\* str.zfill(width)
zfill(cs, width) ==
  [k \in 1..(IF Len(cs) < width THEN width - Len(cs) ELSE 0) |-> "0"] \o cs

\* the width of a formatted CIK
CikWidth == 10

\* what company_tickers.json answers: the request raises, or a list of
\* companies (ticker, cik_str); the numbers may differ from call to call
TickerDirectories ==
  {[raises |-> TRUE, companies |-> <<>>],
   [raises |-> FALSE, companies |-> <<>>],
   [raises |-> FALSE,
    companies |-> <<[ticker |-> "AAPL", cik_str |-> 320193],
                    [ticker |-> "TEST", cik_str |-> 789019]>>],
   [raises |-> FALSE,
    companies |-> <<[ticker |-> "Test", cik_str |-> 1318605]>>]}

\* what writing the cache file does: it is written, open() raises, or the
\* write raises after the file was truncated
SaveOutcomes == {"written", "open raises", "dump raises"}

\* EdgarClient._load_cik_cache: the dictionary of the file when it exists and
\* json.load succeeds, else the cache stays empty; every exception is logged
load_cik_cache(file, open_raises) ==
  IF file.kind = "missing" THEN EmptyCache
  ELSE IF open_raises \/ file.kind = "malformed" THEN EmptyCache
  ELSE file.object

\* EdgarClient._save_cik_cache: json.dump of the dictionary; every exception
\* is logged
save_cik_cache(cache, file, save) ==
  IF save = "written" THEN [kind |-> "object", object |-> cache]
  ELSE IF save = "dump raises" THEN [kind |-> "malformed"]
  ELSE file

\* the first company of the directory whose ticker equals the key in upper
\* case, as a set of at most one index
first_company(companies_list, key) ==
  {i \in 1..Len(companies_list) :
     /\ upper(companies_list[i].ticker) = key
     /\ \A j \in 1..(i - 1) : upper(companies_list[j].ticker) # key}

\* EdgarClient._format_cik: the cached value when ticker.upper() is a key;
\* else one request to company_tickers.json, the CIK of the matching company
\* padded to 10 digits, cached under ticker.upper() and saved to the file;
\* raises when the request raises or no company matches
format_cik(cache, file, ticker, directory, save) ==
  LET key == upper(ticker)
      found == first_company(directory.companies, key)
      formatted_cik ==
        zfill(Digits(directory.companies[CHOOSE i \in found : TRUE].cik_str),
              CikWidth)
      cached == (key :> formatted_cik) @@ cache
  IN IF key \in DOMAIN cache
     THEN [cache |-> cache, file |-> file, requested |-> FALSE,
           raised |-> FALSE, cik |-> cache[key]]
     ELSE IF directory.raises \/ found = {}
     THEN [cache |-> cache, file |-> file, requested |-> TRUE,
           raised |-> TRUE, cik |-> <<>>]
     ELSE [cache |-> cached, file |-> save_cik_cache(cached, file, save),
           requested |-> TRUE, raised |-> FALSE, cik |-> formatted_cik]

\* ------------------------------------------------------------- filing index
MaxIndex == 2
\* "YYYY-MM-DD" as the submissions API writes a filing date
IsoDate(y, m, d) ==
  Digits(y) \o <<"-">> \o zfill(Digits(m), 2) \o <<"-">> \o zfill(Digits(d), 2)
\* the filingDate strings of the index: two quarters of 2023, a date of
\* 2022, and a string that is no date
FilingDates ==
  {IsoDate(2023, 2, 15), IsoDate(2023, 11, 3), IsoDate(2022, 3, 20), <<>>}
\* the "recent" filings of a company: the form and filingDate columns; the
\* accession number of the entry in row i is written as i
IndexEntries == [form : {"10-K", "10-Q"}, filing_date : FilingDates]
FilingIndexes == UNION {[1..n -> IndexEntries] : n \in 0..MaxIndex}
\* the (year, quarter) find_filing_url is asked for, the filing type being
\* "10-K"
UrlRequests == [year : {2023}, quarter : {None, 1}, filing_type : {"10-K"}]

\* the rank of a character of a date string in the order Python compares
\* characters: "-" before the digits, the digits in their order
ord(c) ==
  CASE c = "-" -> 1 [] c = "0" -> 2 [] c = "1" -> 3 [] c = "2" -> 4
    [] c = "3" -> 5 [] c = "4" -> 6 [] c = "5" -> 7 [] c = "6" -> 8
    [] c = "7" -> 9 [] c = "8" -> 10 [] c = "9" -> 11

RECURSIVE str_less(_, _)
\* a < b for two strings
str_less(a, b) ==
  IF b = <<>> THEN FALSE
  ELSE IF a = <<>> THEN TRUE
  ELSE IF Head(a) # Head(b) THEN ord(Head(a)) < ord(Head(b))
  ELSE str_less(Tail(a), Tail(b))

RECURSIVE to_int(_)
\* int(digits); ord of the digit d is d + 2
to_int(cs) ==
  IF cs = <<>> THEN 0
  ELSE 10 * to_int(SubSeq(cs, 1, Len(cs) - 1)) + (ord(cs[Len(cs)]) - 2)

\* datetime.strptime(filing_date, "%Y-%m-%d"): the date, or a raise
strptime(filing_date) ==
  LET n == Len(filing_date)
      dashes == {i \in 1..n : filing_date[i] = "-"}
      a == CHOOSE i \in dashes : \A j \in dashes : i <= j
      b == CHOOSE i \in dashes : \A j \in dashes : j <= i
  IN IF Cardinality(dashes) # 2 \/ a = 1 \/ b = a + 1 \/ b = n
     THEN [raised |-> TRUE]
     ELSE [raised |-> FALSE, year |-> to_int(SubSeq(filing_date, 1, a - 1)),
           month |-> to_int(SubSeq(filing_date, a + 1, b - 1)),
           day |-> to_int(SubSeq(filing_date, b + 1, n))]

\* (date_obj.month - 1) // 3 + 1
filing_quarter(date_obj) == (date_obj.month - 1) \div 3 + 1

\* the rows appended to matches: the date parses, the form is the filing
\* type, the year of the date is the year, and the quarter of the date is
\* the quarter when one is given
matching_rows(index, year, quarter, filing_type) ==
  {i \in 1..Len(index) :
     LET date_obj == strptime(index[i].filing_date) IN
     /\ ~date_obj.raised
     /\ index[i].form = filing_type
     /\ date_obj.year = year
     /\ (quarter = None \/ filing_quarter(date_obj) = quarter)}

\* (filing_date, accession_number) tuples compared as Python compares them
tuple_less(index, i, j) ==
  \/ str_less(index[i].filing_date, index[j].filing_date)
  \/ index[i].filing_date = index[j].filing_date /\ i < j

\* a choice of the first row of the matches as they were appended
first_match(index, matches) == CHOOSE i \in matches : \A j \in matches : i <= j

\* matches.sort(reverse=True); matches[0]
newest_match(index, matches) ==
  CHOOSE i \in matches : \A j \in matches : j # i => tuple_less(index, j, i)

\* date_obj after the loop: the date of the last row whose date parsed
last_parsed(index) ==
  LET parsed == {i \in 1..Len(index) : ~strptime(index[i].filing_date).raised}
  IN strptime(index[CHOOSE i \in parsed : \A j \in parsed : j <= i].filing_date)

\* EdgarClient.find_filing_url: raises when the index has no rows or no row
\* matches; else the accession number of the newest match, and as
\* "filing_date" the variable date_obj as the loop left it
find_filing_url(index, year, quarter, filing_type) ==
  LET matches == matching_rows(index, year, quarter, filing_type) IN
  IF index = <<>> THEN [raised |-> TRUE, detail |-> "Missing filing data"]
  ELSE IF matches = {} THEN [raised |-> TRUE, detail |-> "No filing found"]
  ELSE [raised |-> FALSE, accession_number |-> newest_match(index, matches),
        filing_date |-> last_parsed(index)]

\* EdgarClient.download_filing: the DocumentMetadata carries the filing_date
\* of find_filing_url; every exception is raised again
download_filing(index, req) ==
  LET fill_url_data == find_filing_url(index, req.year, req.quarter,
                                       req.filing_type)
  IN IF fill_url_data.raised THEN [raised |-> TRUE]
     ELSE [raised |-> FALSE,
           metadata |-> [document_id |->
                           generate_document_id(Chars("TEST"), req.year,
                                                req.quarter,
                                                Chars(req.filing_type)),
                         year |-> req.year, quarter |-> req.quarter,
                         filing_type |-> req.filing_type,
                         filing_date |-> fill_url_data.filing_date]]

\* ------------------------------------------------ concurrent POST /process
\* the request handlers that run at the same time
Slots == {1, 2}
\* the filings the concurrent requests ask for, and the text chunks each of
\* these filings parses into
RaceRequests ==
  [ticker : {"TEST"}, year : Years, quarter : {1, 2}, filing_type : {"10-K"}]
RaceFilingChunks == MaxChunks + 1
\* a handler between requests
Idle == [pc |-> "idle"]
\* a handler at a point of process_document
Handling(pc, req, i, new_facts) ==
  [pc |-> pc, request |-> req, i |-> i, facts |-> new_facts]
\* a handler that has answered
HasAnswered(req, status, detail, passed_check) ==
  [pc |-> "done", request |-> req, status |-> status, detail |-> detail,
   passed_check |-> passed_check]

\* ChunkRepository.create_chunk by the handler of a slot: the document must
\* exist and the chunk id must be new, else it raises
create_chunk(db, document_id, chunk_id, slot) ==
  IF get_document_by_id(db, document_id) = {} \/ chunk_id_taken(db, chunk_id)
  THEN [db |-> db, raised |-> TRUE]
  ELSE [db |-> [db EXCEPT !.chunks =
                  @ \cup {[chunk_id |-> chunk_id, document_id |-> document_id,
                           content_type |-> "text", written_by |-> slot]}],
        raised |-> FALSE]

\* EmbeddingRepository.create_embedding by the handler of a slot: a row of
\* chunk_embeddings (its own key is a serial id)
create_embedding(db, chunk_id, slot) ==
  [db EXCEPT !.embeddings = @ \cup {[chunk_id |-> chunk_id, written_by |-> slot]}]

\* ------------------------------------------------- chunks and embeddings
\* the documents of the chunk specification, and the steps of
\* create_content_chunk that may raise
ChunkRequests ==
  [ticker : {"TEST"}, year : Years, quarter : {1, 2}, filing_type : {"10-K"}]
ChunkDocumentIds == {DocumentMetadata(req).document_id : req \in ChunkRequests}
ChunkFailStages == {"none", "create_chunk", "create_embedding"}

\* ---------------------------------------------------------------- actions
Init ==
  /\ companies = {}
  /\ documents = {}
  /\ text_chunks = {}
  /\ chunks = {}
  /\ embeddings = {}
  /\ facts = {}
  /\ fact_values = {}
  /\ succeeded = {}
  /\ document_registry = NotConstructed
  /\ cik_cache = EmptyCache
  /\ cache_file = [kind |-> "missing"]
  /\ looked_up = {}
  /\ in_flight = [s \in Slots |-> Idle]
  /\ out = NoOp

SetStore(db) ==
  /\ companies' = db.companies
  /\ documents' = db.documents
  /\ text_chunks' = db.text_chunks
  /\ chunks' = db.chunks
  /\ embeddings' = db.embeddings
  /\ facts' = db.facts
  /\ fact_values' = db.fact_values

\* one POST /process request
ProcessDocument(req, env) ==
  LET r == process_document(Store, req, env) IN
  /\ Cardinality(r.db.documents) <= MaxDocs
  /\ SetStore(r.db)
  /\ succeeded' = IF r.status = 200
                  THEN succeeded \cup {[request |-> req,
                                        document_id |-> r.document_id]}
                  ELSE succeeded
  /\ out' = [op |-> "process", request |-> req, env |-> env,
             status |-> r.status, detail |-> r.detail,
             document_id |-> r.document_id, calls |-> r.calls]
  /\ UNCHANGED <<document_registry, clientVars, in_flight>>

\* one POST /query request; the selector among the request's components
\* holds the registry of the store as it is, or an older, empty one
Query(analysis, registry, current_year, fail) ==
  /\ \E r \in query(Store, registry, analysis, current_year, fail) : out' = r
  /\ UNCHANGED <<storeVars, succeeded, document_registry, clientVars, in_flight>>

\* DocumentSelector(document_registry) built from the store's registry
ConstructSelector ==
  /\ document_registry' =
       [constructed |-> TRUE, keys |-> get_document_registry(Store)]
  /\ out' = [op |-> "construct"]
  /\ UNCHANGED <<storeVars, succeeded, clientVars, in_flight>>

\* DocumentSelector.select_documents on the constructed selector
SelectDocuments(analysis, current_year) ==
  /\ document_registry.constructed
  /\ out' = [op |-> "select", analysis |-> analysis,
             current_year |-> current_year,
             result |-> select_documents(Store, document_registry.keys,
                                         analysis, current_year)]
  /\ UNCHANGED <<storeVars, succeeded, document_registry, clientVars, in_flight>>

\* generate_document_id applied to two inputs that differ in at most one field
GenerateDocumentId(a, b) ==
  /\ Cardinality(DifferingFields(a, b)) <= 1
  /\ out' = [op |-> "generate_document_id", a |-> a, b |-> b,
             id_a |-> document_id_of(a), id_b |-> document_id_of(b)]
  /\ UNCHANGED <<storeVars, succeeded, document_registry, clientVars, in_flight>>

\* one call of UnifiedEmbeddingService.generate_embedding
GenerateEmbedding(model, text_length, endpoint_raises) ==
  /\ out' = [op |-> "generate_embedding", model |-> model,
             text_length |-> text_length, endpoint_raises |-> endpoint_raises,
             result |-> generate_embedding(model, text_length, endpoint_raises)]
  /\ UNCHANGED <<storeVars, succeeded, document_registry, clientVars, in_flight>>

\* one call of DocumentProcessor._extract_text_chunks
ExtractTextChunks(filing) ==
  /\ out' = [op |-> "extract_text_chunks", filing |-> filing,
             text_chunks |-> extract_text_chunks(filing)]
  /\ UNCHANGED <<storeVars, succeeded, document_registry, clientVars, in_flight>>

\* one call of QueryAnalyzer.analyze_query
AnalyzeQuery(extraction, model, enhancement_raises, endpoint_raises) ==
  /\ out' = [op |-> "analyze_query", extraction |-> extraction,
             enhancement_raises |-> enhancement_raises,
             endpoint_raises |-> endpoint_raises,
             result |-> analyze_query(extraction, model, enhancement_raises,
                                      endpoint_raises)]
  /\ UNCHANGED <<storeVars, succeeded, document_registry, clientVars, in_flight>>

\* one call of ResponseGenerator._parse_response on an answer of the endpoint
ParseResponse(content) ==
  /\ out' = [op |-> "parse_response", content |-> content,
             result |-> parse_response(content)]
  /\ UNCHANGED <<storeVars, succeeded, document_registry, clientVars, in_flight>>

\* one call of ResponseGenerator.generate_response
GenerateResponse(context, llm) ==
  /\ out' = [op |-> "generate_response", relevant_chunks |-> context.chunks,
             relevant_fact_values |-> context.fact_values, llm |-> llm,
             result |-> generate_response(context.chunks, context.fact_values,
                                          llm)]
  /\ UNCHANGED <<storeVars, succeeded, document_registry, clientVars, in_flight>>

\* one call of ContentRetriever._rerank_chunks
RerankChunks(top_chunks, llm) ==
  /\ out' = [op |-> "rerank_chunks", chunks |-> top_chunks, llm |-> llm,
             result |-> rerank_chunks(top_chunks, llm)]
  /\ UNCHANGED <<storeVars, succeeded, document_registry, clientVars, in_flight>>

\* one call of UnifiedRepository.delete_document
DeleteDocument(document_id, fails) ==
  LET r == delete_document(Store, document_id, fails) IN
  /\ SetStore(r.db)
  /\ out' = [op |-> "delete_document", document_id |-> document_id,
             existed |-> get_document_by_id(Store, document_id) # {},
             fails |-> fails, result |-> r.result]
  /\ UNCHANGED <<succeeded, document_registry, clientVars, in_flight>>

\* one call of EdgarClient.save_xbrl_fact_values
SaveXbrlFactValues(ticker, batch) ==
  /\ SetStore(save_xbrl_fact_values(Store, ticker, batch))
  /\ out' = [op |-> "save_xbrl_fact_values", ticker |-> ticker,
             fact_values |-> batch]
  /\ UNCHANGED <<succeeded, document_registry, clientVars, in_flight>>

\* EdgarClient(): a new client reads the cache file
ConstructClient(open_raises) ==
  /\ cik_cache' = load_cik_cache(cache_file, open_raises)
  /\ looked_up' = {}
  /\ out' = [op |-> "construct_client", file |-> cache_file,
             open_raises |-> open_raises]
  /\ UNCHANGED <<storeVars, succeeded, document_registry, cache_file, in_flight>>

\* one call of EdgarClient._format_cik
FormatCik(ticker, directory, save) ==
  LET r == format_cik(cik_cache, cache_file, ticker, directory, save) IN
  /\ cik_cache' = r.cache
  /\ cache_file' = r.file
  /\ looked_up' = IF r.requested /\ ~r.raised
                  THEN looked_up \cup {[ticker |-> ticker, cik |-> r.cik]}
                  ELSE looked_up
  /\ out' = [op |-> "format_cik", ticker |-> ticker, requested |-> r.requested,
             raised |-> r.raised, cik |-> r.cik]
  /\ UNCHANGED <<storeVars, succeeded, document_registry, in_flight>>

\* one call of EdgarClient.download_filing, find_filing_url within it
DownloadFiling(index, req) ==
  /\ out' = [op |-> "download_filing", index |-> index, request |-> req,
             found |-> find_filing_url(index, req.year, req.quarter,
                                       req.filing_type),
             result |-> download_filing(index, req)]
  /\ UNCHANGED <<storeVars, succeeded, document_registry, clientVars, in_flight>>

\* process_document up to the "document already exists" check: validation,
\* get_company_filings and get_document; an existing document is answered
\* with "success" at once
PassCheck(s, req) ==
  /\ in_flight[s].pc = "idle"
  /\ in_flight' =
       [in_flight EXCEPT ![s] =
          IF get_document(Store, req.ticker, req.year, req.quarter,
                          req.filing_type) # {}
          THEN HasAnswered(req, 200, "success", FALSE)
          ELSE Handling("checked", req, 0, {})]
  /\ out' = [op |-> "pass_check", slot |-> s]
  /\ UNCHANGED <<storeVars, succeeded, document_registry, clientVars>>

\* process_document from the company lookup to create_document: the facts
\* are downloaded when no Company row exists, the filing is downloaded and
\* parsed (process_filing saves the document and its text chunks), and the
\* handler creates the document row
ProcessFiling(s, payload) ==
  LET req == in_flight[s].request
      meta == DocumentMetadata(req)
      firstSight == ~get_company(Store, req.ticker)
      db1 == IF firstSight
             THEN download_xbrl_facts(Store, req.ticker, payload, FALSE)
             ELSE Store
      db2 == save_to_database(db1, meta, RaceFilingChunks, FALSE)
  IN
  /\ in_flight[s].pc = "checked"
  /\ SetStore(create_document(db2, meta))
  /\ in_flight' =
       [in_flight EXCEPT ![s] =
          Handling("embedding", req, 0,
                   IF firstSight THEN payload.facts ELSE {})]
  /\ out' = [op |-> "process_filing", slot |-> s]
  /\ UNCHANGED <<succeeded, document_registry, clientVars>>

\* embed_document, create_content_chunk of chunk i: ChunkRepository.create_chunk
\* commits the row; when it raises the request ends with 500
CreateChunk(s) ==
  LET h == in_flight[s]
      document_id == DocumentMetadata(h.request).document_id
      r == create_chunk(Store, document_id, text_chunk_id(document_id, h.i), s)
  IN
  /\ h.pc = "embedding"
  /\ h.i < RaceFilingChunks
  /\ SetStore(r.db)
  /\ in_flight' =
       [in_flight EXCEPT ![s] =
          IF r.raised
          THEN HasAnswered(h.request, 500, "Error generating embeddings", TRUE)
          ELSE Handling("chunk_created", h.request, h.i, h.facts)]
  /\ out' = [op |-> "create_chunk", slot |-> s]
  /\ UNCHANGED <<succeeded, document_registry, clientVars>>

\* create_content_chunk of chunk i, EmbeddingRepository.create_embedding
CreateEmbedding(s) ==
  LET h == in_flight[s]
      document_id == DocumentMetadata(h.request).document_id
  IN
  /\ h.pc = "chunk_created"
  /\ SetStore(create_embedding(Store, text_chunk_id(document_id, h.i), s))
  /\ in_flight' =
       [in_flight EXCEPT ![s] = Handling("embedding", h.request, h.i + 1, h.facts)]
  /\ out' = [op |-> "create_embedding", slot |-> s]
  /\ UNCHANGED <<succeeded, document_registry, clientVars>>

\* the end of process_document: embed_facts and the "success" response
RespondSuccess(s) ==
  LET h == in_flight[s] IN
  /\ h.pc = "embedding"
  /\ h.i = RaceFilingChunks
  /\ SetStore(embed_facts(Store, h.facts, FALSE))
  /\ in_flight' = [in_flight EXCEPT ![s] =
                     HasAnswered(h.request, 200, "success", TRUE)]
  /\ out' = [op |-> "respond", slot |-> s]
  /\ UNCHANGED <<succeeded, document_registry, clientVars>>

\* one call of DocumentRepository.create_document
CreateDocument(req) ==
  /\ SetStore(create_document(Store, DocumentMetadata(req)))
  /\ out' = [op |-> "create_document", request |-> req]
  /\ UNCHANGED <<succeeded, document_registry, clientVars, in_flight>>

\* one call of UnifiedEmbeddingService.embed_document for a filing of n chunks
EmbedDocument(document_id, n, fail, at) ==
  LET r == embed_document(Store, document_id, n, fail, at) IN
  /\ SetStore(r.db)
  /\ out' = [op |-> "embed_document", document_id |-> document_id, n |-> n,
             fail |-> fail, at |-> at, raised |-> ~r.ok]
  /\ UNCHANGED <<succeeded, document_registry, clientVars, in_flight>>

\* one call of UnifiedRepository.create_content_chunk, with an embedding or
\* without one
CreateContentChunk(document_id, i, has_embedding, fail) ==
  LET r == create_content_chunk(Store, document_id,
                                text_chunk_id(document_id, i), has_embedding,
                                fail)
  IN
  /\ SetStore(r.db)
  /\ out' = [op |-> "create_content_chunk", document_id |-> document_id,
             i |-> i, has_embedding |-> has_embedding, fail |-> fail,
             raised |-> ~r.ok]
  /\ UNCHANGED <<succeeded, document_registry, clientVars, in_flight>>

\* --------------------------------------------------------- specifications
Next ==
  \/ \E req \in Requests, env \in ProcessEnvs : ProcessDocument(req, env)
  \/ \E analysis \in QueryAnalyses, fail \in QueryFailStages,
        registry \in {{}, get_document_registry(Store)} :
       \E current_year \in Years : Query(analysis, registry, current_year, fail)

Spec == Init /\ [][Next]_vars

NextSelect ==
  \/ \E req \in SelectRequests : ProcessDocument(req, QuietEnv)
  \/ ConstructSelector
  \/ \E analysis \in SelectAnalyses, current_year \in CurrentYears :
       SelectDocuments(analysis, current_year)

SpecSelect == Init /\ [][NextSelect]_vars

NextPure ==
  \/ \E a \in IdInputs, b \in IdInputs : GenerateDocumentId(a, b)
  \/ \E model \in EmbeddingModels, text_length \in TextLengths,
        endpoint_raises \in BOOLEAN :
       GenerateEmbedding(model, text_length, endpoint_raises)
  \/ \E extraction \in LlmExtractions, model \in EmbeddingModels,
        enhancement_raises \in BOOLEAN, endpoint_raises \in BOOLEAN :
       AnalyzeQuery(extraction, model, enhancement_raises, endpoint_raises)

SpecPure == Init /\ [][NextPure]_vars

NextSegment == \E filing \in Filings : ExtractTextChunks(filing)

SpecSegment == Init /\ [][NextSegment]_vars

NextRespond ==
  \/ \E content \in LlmContents : ParseResponse(content)
  \/ \E context \in ResponseContexts, llm \in LlmAnswers :
       GenerateResponse(context, llm)

SpecRespond == Init /\ [][NextRespond]_vars

NextRerank ==
  \E top_chunks \in RerankInputs, llm \in LlmRankings :
    RerankChunks(top_chunks, llm)

SpecRerank == Init /\ [][NextRerank]_vars

NextDelete ==
  \/ \E req \in DeleteRequests, env \in DeleteEnvs : ProcessDocument(req, env)
  \/ \E document_id \in DeleteIds, fails \in BOOLEAN :
       DeleteDocument(document_id, fails)

SpecDelete == Init /\ [][NextDelete]_vars

NextFacts ==
  \E ticker \in Tickers, batch \in Batches : SaveXbrlFactValues(ticker, batch)

SpecFacts == Init /\ [][NextFacts]_vars

NextClient ==
  \/ \E open_raises \in BOOLEAN : ConstructClient(open_raises)
  \/ \E ticker \in LookupTickers, directory \in TickerDirectories,
        save \in SaveOutcomes :
       FormatCik(ticker, directory, save)

SpecClient == Init /\ [][NextClient]_vars

NextIndex ==
  \E index \in FilingIndexes, req \in UrlRequests : DownloadFiling(index, req)

SpecIndex == Init /\ [][NextIndex]_vars

NextRace ==
  \E s \in Slots :
    \/ \E req \in RaceRequests : PassCheck(s, req)
    \/ \E payload \in XbrlPayloads : ProcessFiling(s, payload)
    \/ CreateChunk(s)
    \/ CreateEmbedding(s)
    \/ RespondSuccess(s)

SpecRace == Init /\ [][NextRace]_vars

NextChunks ==
  \/ \E req \in ChunkRequests : CreateDocument(req)
  \/ \E document_id \in ChunkDocumentIds, n \in 0..MaxChunks,
        fail \in ChunkFailStages, at \in 1..MaxChunks :
       EmbedDocument(document_id, n, fail, at)
  \/ \E document_id \in ChunkDocumentIds, i \in 0..MaxChunks,
        has_embedding \in BOOLEAN, fail \in ChunkFailStages :
       CreateContentChunk(document_id, i, has_embedding, fail)
  \/ \E document_id \in ChunkDocumentIds, fails \in BOOLEAN :
       DeleteDocument(document_id, fails)

SpecChunks == Init /\ [][NextChunks]_vars

\* ------------------------------------------------------------- properties
\* the requests earlier answered with "success" that carry these four values
EarlierSuccesses(req) == {s \in succeeded : s.request = req}

\* C1: once a POST /process for (ticker, year, quarter, filing_type) has
\* succeeded, every later POST /process with the same four values leaves the
\* Document rows as they are (exactly one row for the tuple), downloads,
\* parses and embeds nothing, and answers "success" with the original id.
C1_RepeatedIngestionIsIdempotent ==
  [][ (out'.op = "process" /\ EarlierSuccesses(out'.request) # {})
      => /\ documents' = documents
         /\ Cardinality({d \in documents' :
                           /\ d.ticker = out'.request.ticker
                           /\ d.year = out'.request.year
                           /\ d.quarter = out'.request.quarter
                           /\ d.filing_type = out'.request.filing_type}) = 1
         /\ out'.calls \cap {"download_xbrl_facts", "download_filing",
                             "process_filing", "embed_document",
                             "embed_facts"} = {}
         /\ out'.status = 200
         /\ out'.detail = "success"
         /\ \A s \in EarlierSuccesses(out'.request) :
              out'.document_id = s.document_id ]_vars

\* the two inputs of the last generate_document_id step differ in exactly
\* this one field
DiffersOnlyIn(f) == DifferingFields(out.a, out.b) = {f}

\* C2 (as stated): generate_document_id gives equal ids for equal inputs and
\* different ids for inputs that differ in any single field, quarter None
\* against 4 and filing types differing only by a hyphen included.
C2_DocumentIdInjective ==
  out.op = "generate_document_id" =>
    /\ (out.a = out.b => out.id_a = out.id_b)
    /\ (Cardinality(DifferingFields(out.a, out.b)) = 1 => out.id_a # out.id_b)

\* quarters the id renders as "4", and filing types equal up to hyphens
RendersAsFour(q) == q \in {None, 0, 4}
HyphenVariants(s, t) ==
  \/ {s, t} = {"10-K", "10K"}
  \/ {s, t} = {"10-Q", "10Q"}

\* C2 (amended): generate_document_id gives equal ids for equal inputs; for
\* inputs that differ in a single field the ids differ, except that they are
\* equal when the field is the quarter and both quarters are among None, 0
\* and 4, or the field is the filing type and the two differ only by hyphens.
C2_DocumentIdInjectiveUpToDefaults ==
  out.op = "generate_document_id" =>
    /\ (out.a = out.b => out.id_a = out.id_b)
    /\ (DiffersOnlyIn("ticker") \/ DiffersOnlyIn("year") => out.id_a # out.id_b)
    /\ (DiffersOnlyIn("quarter") =>
          (out.id_a = out.id_b
             <=> RendersAsFour(out.a.quarter) /\ RendersAsFour(out.b.quarter)))
    /\ (DiffersOnlyIn("filing_type") =>
          (out.id_a = out.id_b
             <=> HyphenVariants(out.a.filing_type, out.b.filing_type)))

\* two inputs one year apart got different ids
C2_Witness ==
  /\ out.op = "generate_document_id"
  /\ DiffersOnlyIn("year")
  /\ out.id_a = Chars("TEST") \o <<"_", "2", "0", "2", "3", "_", "1", "_", "1", "0", "K">>
  /\ out.id_b = Chars("TEST") \o <<"_", "2", "0", "2", "4", "_", "1", "_", "1", "0", "K">>

\* the filing type of the stored document a reference names
FilingTypeOf(document_id) ==
  (CHOOSE d \in documents : d.document_id = document_id).filing_type

\* C3: select_documents returns its references in descending order of
\* relevance_score, and every reference to a 10-K precedes every reference
\* to a 10-Q.
C3_SelectionSortedByRelevance ==
  out.op = "select" =>
    \A i, j \in 1..Len(out.result) :
      /\ (i < j => out.result[i].relevance_score >= out.result[j].relevance_score)
      /\ (/\ FilingTypeOf(out.result[i].document_id) = "10-K"
          /\ FilingTypeOf(out.result[j].document_id) = "10-Q"
          => i < j)

\* the second company's 10-K came out before the first company's 10-Q
C3_Witness ==
  /\ out.op = "select"
  /\ out.analysis.companies = <<"TEST", "AAPL">>
  /\ Len(out.result) = 2
  /\ out.result[1].relevance_score = RelevanceAnnual
  /\ out.result[2].relevance_score = RelevanceQuarterly
  /\ \E d \in documents :
       d.document_id = out.result[1].document_id /\ d.ticker = "AAPL"
  /\ \E d \in documents :
       d.document_id = out.result[2].document_id /\ d.ticker = "TEST"

\* the years a select_documents call asks for
RequestedYears ==
  IF out.analysis.years = <<>> THEN {out.current_year}
  ELSE {out.analysis.years[i] : i \in 1..Len(out.analysis.years)}
RequestedCompanies ==
  {out.analysis.companies[i] : i \in 1..Len(out.analysis.companies)}
NoRequestedDocument ==
  \A d \in documents : ~(d.ticker \in RequestedCompanies /\ d.year \in RequestedYears)

\* C4: select_documents returns the empty list when the analysis names no
\* company, and when it names companies but no stored document is of a
\* requested company and year.
C4_NothingToSelectGivesEmptyList ==
  (out.op = "select" /\ (out.analysis.companies = <<>> \/ NoRequestedDocument))
    => out.result = <<>>

\* a company of the registry with a stored 10-K was asked for another year
C4_Witness ==
  /\ out.op = "select"
  /\ out.analysis.companies = <<"TEST">>
  /\ out.analysis.years = <<2022>>
  /\ "TEST" \in document_registry.keys
  /\ \E d \in documents : d.ticker = "TEST" /\ d.filing_type = "10-K"
  /\ out.result = <<>>

\* C5: when the embedding endpoint raises, generate_embedding does not raise
\* and returns an all-zero vector as long as the vectors the endpoint returns
\* for the configured model.
C5_FallbackHasModelDimension ==
  (out.op = "generate_embedding" /\ out.endpoint_raises) =>
    /\ ~out.result.raised
    /\ out.result.vector.all_zero
    /\ out.result.vector.length = endpoint_dimension(out.model)

\* C6: with the 10-K of TEST for 2023 ingested (the only TEST document of
\* that year), a selector asked for companies ["TEST"], years [2023] returns
\* exactly one reference, at relevance 1.0, whether it was constructed before
\* or after the ingestion.
C6_SelectionAfterIngestion ==
  (/\ out.op = "select"
   /\ out.analysis.companies = <<"TEST">>
   /\ out.analysis.years = <<2023>>
   /\ \E s \in succeeded :
        /\ s.request.ticker = "TEST"
        /\ s.request.year = 2023
        /\ s.request.filing_type = "10-K"
   /\ Cardinality({d \in documents : d.ticker = "TEST" /\ d.year = 2023}) = 1)
  => /\ Len(out.result) = 1
     /\ out.result[1].relevance_score = RelevanceAnnual

\* C7: every TextChunk _extract_text_chunks returns holds at least 50
\* characters; a section of fewer characters gives no chunk.
C7_ChunksHaveAtLeast50Characters ==
  out.op = "extract_text_chunks" =>
    \A k \in 1..Len(out.text_chunks) : out.text_chunks[k].length >= 50

\* C8: a query whose retrieval finishes with no relevant chunk and no fact
\* value is answered 404 "No relevant content found" and the response
\* generator is not called.
C8_NoGroundingContentGives404 ==
  (/\ out.op = "query"
   /\ out.detail # "Error retrieving content"
   /\ out.relevant_chunks = {}
   /\ out.fact_values = {})
  => /\ out.status = 404
     /\ "generate_response" \notin out.calls

C10_AnnualRequestWithoutQuarterAccepted ==
  (/\ out.op = "process"
   /\ out.request.filing_type = "10-K"
   /\ out.request.quarter = None)
  => /\ out.status # 400
     /\ "get_company_filings" \in out.calls


\* C11: analyze_query never raises because of the LLM: when the extraction
\* call raises or answers malformed JSON, or the enhancement call raises, it
\* returns a QueryAnalysis whose companies, years, quarters and topics are
\* all empty lists.
C11_AnalysisFallsBackToEmptyLists ==
  (out.op = "analyze_query"
   /\ (out.extraction.kind \in {"raises", "malformed"}
       \/ out.enhancement_raises))
  => /\ ~out.result.raised
     /\ out.result.companies = <<>>
     /\ out.result.years = <<>>
     /\ out.result.quarters = <<>>
     /\ out.result.topics = <<>>


\* the places of the "SOURCES:" delimiter in a text
DelimiterAt(content) ==
  {i \in 1..Len(content) : content[i] = SourcesDelimiter}
\* a text without its "ANSWER:" labels
Unlabelled(s) == SelectSeq(s, LAMBDA p : p # AnswerLabel)
\* a text without its outer white space
Trimmed(t) ==
  IF \A i \in 1..Len(t) : t[i] = Space THEN <<>>
  ELSE LET a == CHOOSE i \in 1..Len(t) :
                  t[i] # Space /\ \A j \in 1..(i - 1) : t[j] = Space
           b == CHOOSE i \in 1..Len(t) :
                  t[i] # Space /\ \A j \in (i + 1)..Len(t) : t[j] = Space
       IN SubSeq(t, a, b)

\* C12 as stated: _parse_response raises whenever the output holds no
\* "SOURCES:" delimiter, and when the delimiter is present the output is
\* split into the answer before it and the sources after it.
C12_SplitWheneverDelimiterPresent ==
  out.op = "parse_response"
  => /\ DelimiterAt(out.content) = {} => out.result.raised
     /\ DelimiterAt(out.content) # {} => ~out.result.raised

\* C12: _parse_response raises whenever the output does not hold the
\* "SOURCES:" delimiter exactly once; when it holds it exactly once, the
\* answer is the text before it without its "ANSWER:" labels and outer white
\* space, and the sources are the text after it without outer white space.
C12_SplitAtTheOnlyDelimiter ==
  out.op = "parse_response"
  => /\ Cardinality(DelimiterAt(out.content)) # 1 => out.result.raised
     /\ \A i \in DelimiterAt(out.content) :
          DelimiterAt(out.content) = {i}
          => /\ ~out.result.raised
             /\ out.result.answer
                  = Trimmed(Unlabelled(SubSeq(out.content, 1, i - 1)))
             /\ out.result.sources
                  = Trimmed(SubSeq(out.content, i + 1, Len(out.content)))

\* a text with one delimiter, an answer before it and sources after it
C12_Witness ==
  /\ out.op = "parse_response"
  /\ Cardinality(DelimiterAt(out.content)) = 1
  /\ ~out.result.raised
  /\ out.result.answer # <<>>
  /\ out.result.sources # <<>>


\* the numbered source entries of an answer that has one delimiter
EntriesOf(content) ==
  source_entries(Trimmed(SubSeq(content,
                                1 + CHOOSE i \in DelimiterAt(content) : TRUE,
                                Len(content))))
\* a call of generate_response whose answer arrived and has one delimiter
Answered ==
  /\ out.op = "generate_response"
  /\ ~out.llm.raises
  /\ Cardinality(DelimiterAt(out.llm.content)) = 1
\* the entries that name a retrieved chunk's document, a fact value's fact
NamesChunk(entry) ==
  \E k \in 1..Len(out.relevant_chunks) :
    occurs_in(out.relevant_chunks[k].document_id, entry)
NamesFact(entry) ==
  \E k \in 1..Len(out.relevant_fact_values) :
    occurs_in(out.relevant_fact_values[k].fact_id, entry)

\* C17: citation construction yields at most one citation per numbered
\* source entry, the first context whose id occurs in it: the citations are
\* as many as the entries that name a context, and entries that name no
\* context give no citation and do not make the call raise.
C17_OneCitationPerMatchedEntry ==
  Answered
  => LET entries == EntriesOf(out.llm.content)
         named == {k \in 1..Len(entries) :
                     NamesChunk(entries[k]) \/ NamesFact(entries[k])}
     IN /\ named = {} => /\ ~out.result.raised
                         /\ out.result.citations = <<>>
        /\ ~out.result.raised
           => Len(out.result.citations) = Cardinality(named)

\* C18: a citation built from a retrieved document chunk carries the filing
\* type, the company and the year of the chunk's document, and building it
\* does not make the call fail.
C18_ChunkCitationCarriesDocumentMetadata ==
  (Answered /\ \E k \in 1..Len(EntriesOf(out.llm.content)) :
                 NamesChunk(EntriesOf(out.llm.content)[k]))
  => /\ ~out.result.raised
     /\ \A k \in 1..Len(out.result.citations) :
          out.result.citations[k].content_type = "text"
          => /\ out.result.citations[k].filing_type # {}
             /\ out.result.citations[k].company # {}
             /\ out.result.citations[k].year # {}


\* C13: reranking never loses a chunk: whatever ranking the LLM returns,
\* the list _rerank_chunks returns holds each input chunk exactly once, and
\* the chunks the ranking leaves out come at relevance 0.0.
C13_RerankKeepsEachChunkOnce ==
  out.op = "rerank_chunks"
  => /\ \A c \in 1..Len(out.chunks) :
          Cardinality({k \in 1..Len(out.result) : out.result[k].chunk = c}) = 1
     /\ out.llm.kind = "ranking"
        => \A k \in 1..Len(out.result) :
             (\A j \in 1..Len(out.llm.ranking) :
                out.llm.ranking[j] # out.result[k].chunk)
             => out.result[k].relevance_score.num = 0


\* C14: every chunk retrieve_content returns belongs to a document the
\* Document Selector selected, whatever the list of references (the empty
\* list included), and at most top_k chunks are returned. (Their order is
\* the similarity's, which the store computes.)
C14_RetrievedChunksBelongToSelectedDocuments ==
  (out.op = "query" /\ "retrieve_content" \in out.calls
   /\ out.detail # "Error retrieving content")
  => /\ \A id \in out.relevant_chunks :
          \E c \in chunks :
            /\ c.chunk_id = id
            /\ \E k \in 1..Len(out.documents_used) :
                 out.documents_used[k].document_id = c.document_id
     /\ Cardinality(out.relevant_chunks) <= TopK


\* the quarters a select_documents call asks for
RequestedQuarters ==
  {out.analysis.quarters[i] : i \in 1..Len(out.analysis.quarters)}
\* the references of a select_documents result, as a set
SelectedReferences == {out.result[k] : k \in 1..Len(out.result)}
\* the references to the stored 10-Ks of the given companies and the
\* requested years at 1.0 and to their 10-Qs of the given quarters at 0.9
ReferencesTo(cs, quarters) ==
  {[document_id |-> d.document_id, relevance_score |-> RelevanceAnnual] :
     d \in {d \in documents : /\ d.ticker \in cs
                              /\ d.year \in RequestedYears
                              /\ d.filing_type = "10-K"}}
  \cup
  {[document_id |-> d.document_id, relevance_score |-> RelevanceQuarterly] :
     d \in {d \in documents : /\ d.ticker \in cs
                              /\ d.year \in RequestedYears
                              /\ d.filing_type = "10-Q"
                              /\ d.quarter \in quarters \ {4}}}
\* no reference of the result names a 10-Q of quarter 4
NoFourthQuarterReport ==
  \A r \in SelectedReferences :
    \A d \in documents :
      d.document_id = r.document_id
      => ~(d.filing_type = "10-Q" /\ d.quarter = 4)

C16_AllQuarterlyReportsWhenNoQuarters ==
  (out.op = "select" /\ out.analysis.quarters = <<>>)
  => \A d \in documents :
       (/\ d.ticker \in RequestedCompanies \cap document_registry.keys
        /\ d.year \in RequestedYears
        /\ d.filing_type = "10-Q")
       => [document_id |-> d.document_id,
           relevance_score |-> RelevanceAllQuarters] \in SelectedReferences


\* C19: after delete_document(id) has returned True the store holds no
\* Document, DocumentChunk, ChunkEmbedding, TextChunk or FactValue of that
\* document id; it returns False and changes nothing when the document does
\* not exist, and it leaves the store unchanged when a deletion step fails.
C19_DeleteCascades ==
  [][ out'.op = "delete_document"
      => /\ out'.result
            => /\ \A d \in documents' : d.document_id # out'.document_id
               /\ \A c \in chunks' : c.document_id # out'.document_id
               /\ \A e \in embeddings' :
                    \A c \in chunks : c.chunk_id = e.chunk_id
                                      => c.document_id # out'.document_id
               /\ \A t \in text_chunks' : t.document_id # out'.document_id
               /\ \A v \in fact_values' : v.document_id # out'.document_id
         /\ ~out'.existed => ~out'.result /\ UNCHANGED storeVars
         /\ out'.fails => UNCHANGED storeVars ]_vars


\* the details a stored FactValue is looked up by
DetailsOf(v) ==
  <<v.fact_id, v.ticker, v.fiscal_year, v.fiscal_period, v.filing_type>>

ReachesCompanyLookup ==
  /\ out'.op = "process"
  /\ out'.status # 400
  /\ out'.detail # "Error getting company filings"
  /\ get_document(Store, out'.request.ticker, out'.request.year,
                  out'.request.quarter, out'.request.filing_type) = {}
\* the request of the step called download_xbrl_facts
Downloads == out'.op = "process" /\ "download_xbrl_facts" \in out'.calls
\* fact values of the ticker are stored: a request for it downloaded them
HasDownloaded(ticker) == \E v \in fact_values : v.ticker = ticker

\* C21: a POST /process calls download_xbrl_facts exactly when
\* no Company row of the ticker exists, and once a request for the ticker
\* has downloaded its facts no later request for the ticker downloads them.
C21_FactsDownloadedOncePerTicker ==
  [][ /\ (ReachesCompanyLookup =>
            (Downloads <=> ~get_company(Store, out'.request.ticker)))
      /\ (out'.op = "process" /\ HasDownloaded(out'.request.ticker)
            => ~Downloads) ]_vars

\* during the last POST /process a persisting step raised: _save_to_database
\* (document, text chunks, tables) inside process_filing, the handler's own
\* create_document, or the insert of a downloaded fact
PersistingStepRaised ==
  /\ out.op = "process"
  /\ \/ out.env.fail = "save_to_database" /\ "process_filing" \in out.calls
     \/ out.env.fail = "create_document" /\ "create_document" \in out.calls
     \/ /\ out.env.fail = "create_fact"
        /\ "download_xbrl_facts" \in out.calls
        /\ out.env.xbrl.facts # {}

\* C22: no stage of the ingestion pipeline swallows an exception of a
\* persisting step: when saving the document, its text chunks or tables, or
\* creating a fact, raises, the request ends with an error response and not
\* with status "success".
C22_PersistFailureIsReported ==
  PersistingStepRaised => out.status = 500 /\ out.detail # "success"

\* two spellings of one ticker
SameTicker(a, b) ==
  \/ {a, b} \subseteq {"TEST", "test", "Test"}
  \/ {a, b} \subseteq {"AAPL", "aapl"}
\* the cache holds an entry for a spelling of the ticker
Cached(ticker) == \E key \in DOMAIN cik_cache : SameTicker(key, ticker)
\* the cache file is missing or cannot be read
FileUnusable(open_raises) ==
  cache_file.kind \in {"missing", "malformed"} \/ open_raises

\* C23: _format_cik asks the ticker directory only when the in-memory cache
\* has no entry for the ticker; after one successful lookup of a ticker every
\* later lookup of it, in any letter case, sends no request and returns the
\* same identifier; a client built over a missing or unreadable cache file
\* starts with an empty cache (so its lookups go to the directory) and is
\* built without failure.
C23_CacheOnlySavesLookups ==
  [][ /\ (out'.op = "format_cik" =>
            /\ (out'.requested <=> ~Cached(out'.ticker))
            /\ \A h \in looked_up :
                 SameTicker(h.ticker, out'.ticker) =>
                   /\ ~out'.requested
                   /\ ~out'.raised
                   /\ out'.cik = h.cik)
      /\ (out'.op = "construct_client"
          /\ FileUnusable(out'.open_raises)
            => cik_cache' = EmptyCache) ]_vars

\* a lookup in another letter case than the one that was looked up first was
\* answered from the cache, after the cache file could not be written
C23_Witness ==
  /\ out.op = "format_cik"
  /\ ~out.requested
  /\ cache_file.kind # "object"
  /\ \E h \in looked_up :
       h.ticker # out.ticker /\ SameTicker(h.ticker, out.ticker)
          /\ h.cik = out.cik

\* the rows of the last call's index that the claim counts as candidates:
\* form, year of the date and, when a quarter is given, (month - 1) \div 3 + 1
IsCandidate(entry, req) ==
  LET date_obj == strptime(entry.filing_date) IN
  /\ ~date_obj.raised
  /\ entry.form = req.filing_type
  /\ date_obj.year = req.year
  /\ (req.quarter # None => (date_obj.month - 1) \div 3 + 1 = req.quarter)
Candidates == {i \in DOMAIN out.index : IsCandidate(out.index[i], out.request)}
\* a date is not later than another
NotLater(a, b) ==
  \/ a.year < b.year
  \/ a.year = b.year /\ a.month < b.month
  \/ a.year = b.year /\ a.month = b.month /\ a.day <= b.day
DateOfRow(i) == strptime(out.index[i].filing_date)

\* C24: find_filing_url raises exactly when no row of the index has the
\* requested form, year and (when one is given) quarter, the quarter of a row
\* being (month - 1) \div 3 + 1; otherwise the accession number it selects is
\* that of a candidate row none of the candidates is filed later than.
C24_SelectsNewestMatchingFiling ==
  out.op = "download_filing" =>
    /\ (out.found.raised <=> Candidates = {})
    /\ (~out.found.raised =>
          /\ out.found.accession_number \in Candidates
          /\ \A j \in Candidates :
               NotLater(DateOfRow(j), DateOfRow(out.found.accession_number)))

\* two rows match and the newer one, in the second row, was selected
C24_Witness ==
  /\ out.op = "download_filing"
  /\ Cardinality(Candidates) = 2
  /\ ~out.found.raised
  /\ out.found.accession_number = 2
  /\ DateOfRow(1) # DateOfRow(2)

\* C30: the filing_date find_filing_url returns, and download_filing stores
\* in the DocumentMetadata, is the filing date of the row it selected.
C30_FilingDateOfSelectedFiling ==
  out.op = "download_filing" /\ ~out.found.raised =>
    /\ out.found.filing_date = DateOfRow(out.found.accession_number)
    /\ out.result.metadata.filing_date = DateOfRow(out.found.accession_number)

\* the companies and years the last query's analysis names
AnalysisCompanies ==
  {out.analysis.companies[i] : i \in 1..Len(out.analysis.companies)}
AnalysisYears == {out.analysis.years[i] : i \in 1..Len(out.analysis.years)}

\* C25: the fact-value lookup of POST /query finds every stored FactValue of
\* a fact the similarity search returned, for a company and fiscal year of
\* the analysis, whatever its fiscal period and filing type: the query is
\* not ended by the lookup and the value is among the fact values used.
C25_SweepFindsEveryStoredFactValue ==
  (out.op = "query" /\ "search_facts_by_embedding" \in out.calls
   /\ out.detail # "Error generating response")
  => \A v \in fact_values :
       (/\ v.fact_id \in out.relevant_facts
        /\ v.ticker \in AnalysisCompanies
        /\ v.fiscal_year \in AnalysisYears)
       => out.status = 200 /\ v \in out.fact_values

\* two chunk rows of one chunk id, or two embeddings of one chunk
DuplicateChunks ==
  \/ \E c1 \in chunks, c2 \in chunks : c1 # c2 /\ c1.chunk_id = c2.chunk_id
  \/ \E e1 \in embeddings, e2 \in embeddings :
       e1 # e2 /\ e1.chunk_id = e2.chunk_id
\* chunk rows of one document written by different requests
OverlappingChunkSets ==
  \E c1 \in chunks, c2 \in chunks :
    c1.document_id = c2.document_id /\ c1.written_by # c2.written_by
\* both handlers passed the "document already exists" check for one filing
BothPassedCheck ==
  /\ \A s \in Slots : in_flight[s].pc # "idle"
  /\ in_flight[1].request = in_flight[2].request
  /\ \A s \in Slots : in_flight[s].pc = "done" => in_flight[s].passed_check
BothAnswered == \A s \in Slots : in_flight[s].pc = "done"

\* C26 (as stated): two concurrent POST /process requests for one filing
\* both pass the existence check, both run the pipeline, and the store ends
\* up with duplicate or partially overlapping chunk sets for the document.
C26_RaceLeavesDuplicateChunks ==
  BothPassedCheck /\ BothAnswered => DuplicateChunks \/ OverlappingChunkSets

\* C26 (amended): whatever the interleaving of two concurrent POST /process
\* requests, the store never holds two chunk rows of one chunk id, two
\* embeddings of one chunk, or chunk rows of one document written by both
\* requests; when both passed the existence check of one filing that parses
\* into chunks, one of them finds a chunk id taken and is answered 500
\* "Error generating embeddings".
C26_RaceLeavesOneChunkSet ==
  /\ ~DuplicateChunks
  /\ ~OverlappingChunkSets
  /\ BothPassedCheck /\ BothAnswered =>
       \E s \in Slots :
         /\ in_flight[s].status = 500
         /\ in_flight[s].detail = "Error generating embeddings"

\* both handlers passed the check of one filing; one has answered "success"
\* and the other has been refused at a chunk the first one wrote
C26_Witness ==
  /\ BothPassedCheck
  /\ BothAnswered
  /\ Cardinality({c \in chunks : c.written_by = 1}) = RaceFilingChunks
  /\ in_flight[2].status = 500

\* the embedding rows of a chunk
EmbeddingsOf(chunk_id) == {e \in embeddings : e.chunk_id = chunk_id}

\* C27: in every state the store reaches through embed_document,
\* create_content_chunk and delete_document calls, failing ones included,
\* each DocumentChunk row has exactly one ChunkEmbedding row and each
\* ChunkEmbedding row is that of a stored DocumentChunk.
C27_ChunksAndEmbeddingsOneToOne ==
  /\ \A c \in chunks : Cardinality(EmbeddingsOf(c.chunk_id)) = 1
  /\ \A e \in embeddings : \E c \in chunks : c.chunk_id = e.chunk_id

\* the content chunk of this id is stored with an embedding
EmbeddedChunk(chunk_id) ==
  /\ \E c \in chunks : c.chunk_id = chunk_id
  /\ \E e \in embeddings : e.chunk_id = chunk_id

\* C28: whenever POST /process answers "success" for a filing, a retry after
\* a request that failed part-way through embedding included, every text
\* chunk extracted from the filing is stored as a content chunk with an
\* embedding, and no content chunk of the document is without one.
C28_SuccessCoversWholeDocument ==
  (out.op = "process" /\ out.status = 200 /\ out.detail = "success") =>
    /\ \A t \in text_chunks :
         t.document_id = out.document_id => EmbeddedChunk(t.chunk_id)
    /\ \A c \in chunks :
         c.document_id = out.document_id => EmbeddedChunk(c.chunk_id)

\* the ids of the content handed to the last generate_response call
SuppliedChunks ==
  {out.relevant_chunks[k] : k \in 1..Len(out.relevant_chunks)}
SuppliedFactValues ==
  {out.relevant_fact_values[k] : k \in 1..Len(out.relevant_fact_values)}
\* the citations the call returned
ProducedCitations ==
  {out.result.citations[k] : k \in 1..Len(out.result.citations)}
\* the ids the answer of the endpoint names
NamedByLlm(id) ==
  \E k \in 1..Len(out.llm.content) : out.llm.content[k] = Word(id)

\* C29: every Citation generate_response returns refers to supplied content:
\* its document_id is that of a supplied chunk or of a supplied fact value,
\* and a fact citation carries the fact_id and document_id of one supplied
\* fact value; an id that only the LLM's text names gives no citation.
C29_CitationsReferToSuppliedContent ==
  (out.op = "generate_response" /\ ~out.result.raised) =>
    \A c \in ProducedCitations :
      /\ \/ \E chunk \in SuppliedChunks : c.document_id = {chunk.document_id}
         \/ \E fv \in SuppliedFactValues : c.document_id = fv.document_id
      /\ c.content_type = "fact_value" =>
           \E fv \in SuppliedFactValues :
             /\ c.fact_id = {fv.fact_id}
             /\ c.document_id = fv.document_id
             /\ c.content = fv.value

\* the answer names a fact id that no supplied fact value has, and the
\* citations returned are those of the supplied fact only
C29_Witness ==
  /\ out.op = "generate_response"
  /\ ~out.result.raised
  /\ NamedByLlm(FactIdRevenues)
  /\ \A fv \in SuppliedFactValues : fv.fact_id # FactIdRevenues
  /\ ProducedCitations # {}
  /\ \A c \in ProducedCitations : c.fact_id = {FactIdRevenue}

====
